---- MODULE Spec2Model ----
(***************************************************************************)
(* computersniper/ai-tutor: the TeachingAssistant dispatcher               *)
(* (src/ta_agents_history.py), its per-session conversation history and    *)
(* pending-escalation log, and the web layer's entry point                 *)
(* get_ai_response_ta_agent (src/app.py).                                  *)
(*                                                                         *)
(* Texts (Python str) are sequences of characters, each character a        *)
(* one-character string; a character outside ASCII is written "uXXXX"      *)
(* (its code point).  Python's None, where a text may be None, is the      *)
(* one-element sequence <<"None">>, which is no text.                      *)
(***************************************************************************)
EXTENDS Integers, Sequences, FiniteSets, TLC

\* ------------------------------------------------------------------ bounds
\* handle_question / web requests begun in one behaviour
MaxCalls == 2

\* ------------------------------------------------------- program constants
\* _add_to_history keeps the last 20 messages
MaxHistory == 20

None == <<"None">>

USER == <<"u", "s", "e", "r">>
ASSISTANT == <<"a", "s", "s", "i", "s", "t", "a", "n", "t">>

\* ------------------------------------------------------------ str helpers
UpperChars == <<"A", "B", "C", "D", "E", "F", "G", "H", "I", "J", "K", "L", "M",
                "N", "O", "P", "Q", "R", "S", "T", "U", "V", "W", "X", "Y", "Z">>
LowerChars == <<"a", "b", "c", "d", "e", "f", "g", "h", "i", "j", "k", "l", "m",
                "n", "o", "p", "q", "r", "s", "t", "u", "v", "w", "x", "y", "z">>

LowerChar(c) ==
    IF \E i \in 1..26 : UpperChars[i] = c
    THEN LowerChars[CHOOSE i \in 1..26 : UpperChars[i] = c]
    ELSE c

\* str.lower()
Lower(s) == [i \in 1..Len(s) |-> LowerChar(s[i])]

\* k in s
Contains(k, s) ==
    \E i \in 0..(Len(s) - Len(k)) : SubSeq(s, i + 1, i + Len(k)) = k

\* any(k in s for k in keywords)
AnyKeyword(keywords, s) == \E k \in keywords : Contains(k, s)

\* bool(x) of a text that may be None: None and "" are falsy
Truthy(x) == x # None /\ x # <<>>

\* mutant of ButLast: the whole list is passed on
ButLast_Whole(s) == s

\* s[:-1]
ButLast(s) == SubSeq(s, 1, Len(s) - 1)

\* s[-n:]
LastN(s, n) == IF Len(s) > n THEN SubSeq(s, Len(s) - n + 1, Len(s)) ELSE s

\* s[-1]
Last(s) == s[Len(s)]

\* -------------------------------------------------- keyword lists (verbatim)
exam_keywords ==
    { <<"e", "x", "a", "m">>,
      <<"m", "i", "d", "t", "e", "r", "m">>,
      <<"f", "i", "n", "a", "l">>,
      <<"q", "u", "i", "z">>,
      <<"t", "e", "s", "t">>,
      <<"u8003", "u8BD5">>,
      <<"u671F", "u4E2D">>,
      <<"u671F", "u672B">>,
      <<"u5C0F", "u6D4B">>,
      <<"u8003", "u5377">>,
      <<"u8BD5", "u5377">> }

code_keywords ==
    { <<"c", "o", "d", "e">>,
      <<"c", "+", "+">>,
      <<"j", "a", "v", "a">>,
      <<"p", "y", "t", "h", "o", "n">>,
      <<"i", "m", "p", "l", "e", "m", "e", "n", "t", "a", "t", "i", "o", "n">>,
      <<"c", "o", "m", "p", "i", "l", "e">>,
      <<"e", "r", "r", "o", "r">>,
      <<"u4EE3", "u7801">>,
      <<"u5B9E", "u73B0">>,
      <<"u62A5", "u9519">> }

lab_keywords ==
    { <<"l", "a", "b">>,
      <<"e", "x", "e", "r", "c", "i", "s", "e">>,
      <<"e", "x", "p", "e", "r", "i", "m", "e", "n", "t">>,
      <<"h", "o", "m", "e", "w", "o", "r", "k">>,
      <<"a", "s", "s", "i", "g", "n", "m", "e", "n", "t">>,
      <<"u4F5C", "u4E1A">>,
      <<"u7EC3", "u4E60">>,
      <<"u5B9E", "u9A8C">> }

is_exam_like(question) == AnyKeyword(exam_keywords, Lower(question))
is_code_like(question) == AnyKeyword(code_keywords, Lower(question))
is_lab_like(question) == AnyKeyword(lab_keywords, Lower(question))

\* ------------------------------------------------ JSON codec of the history
\* json.dumps of a str with ensure_ascii=False: the quote and the backslash
\* are escaped, every other character of the model's alphabet is written raw.
RECURSIVE JsonEscape(_)
JsonEscape(s) ==
    IF s = <<>> THEN <<>>
    ELSE (IF Head(s) \in {"\"", "\\"} THEN <<"\\", Head(s)>> ELSE <<Head(s)>>)
         \o JsonEscape(Tail(s))

\* json.dumps of a str or None
JsonDumpsText(x) ==
    IF x = None THEN <<"n", "u", "l", "l">>
    ELSE <<"\"">> \o JsonEscape(x) \o <<"\"">>

\* mutant of JsonUnescape: escapes are left in the loaded text
JsonUnescape_Raw(s) == s

RECURSIVE JsonUnescape(_)
JsonUnescape(s) ==
    IF s = <<>> THEN <<>>
    ELSE IF Head(s) = "\\" /\ Len(s) >= 2
         THEN <<s[2]>> \o JsonUnescape(Tail(Tail(s)))
         ELSE <<Head(s)>> \o JsonUnescape(Tail(s))

\* json.loads of a JSON string literal or null
JsonLoadsText(j) ==
    IF j = <<"n", "u", "l", "l">> THEN None
    ELSE JsonUnescape(SubSeq(j, 2, Len(j) - 1))

\* json.dump(self.conversation_history, f, ...): a JSON array of
\* {"role": ..., "content": ...} objects
JsonDumpHistory(history) ==
    [i \in 1..Len(history) |->
        [role |-> JsonDumpsText(history[i].role),
         content |-> JsonDumpsText(history[i].content)]]

\* json.load(f) of a file written by JsonDumpHistory
JsonLoadHistory(data) ==
    [i \in 1..Len(data) |->
        [role |-> JsonLoadsText(data[i].role),
         content |-> JsonLoadsText(data[i].content)]]

\* ---------------------------------------------------------- Python scalars
\* A value json.loads can put in the router's payload: a str, a bool, None or
\* an int, tagged with its Python type.
PyStr(s) == [ty |-> "str", v |-> s]
PyTrue == [ty |-> "bool", v |-> "True"]
PyFalse == [ty |-> "bool", v |-> "False"]
PyNone == [ty |-> "NoneType", v |-> "None"]
PyInt(n) == [ty |-> "int", v |-> n]

\* bool(x)
PyBool(x) ==
    CASE x.ty = "bool" -> x.v = "True"
      [] x.ty = "NoneType" -> FALSE
      [] x.ty = "str" -> x.v # ""
      [] x.ty = "int" -> x.v # "0"

\* --------------------------------------------------------- classifier reply
\* The generation collaborator's reply to the router, as a sequence of tokens:
\* an opening or closing brace, a run of other text, or one "key": value
\* member of a JSON object (k the key, j the JSON type of the value, v its
\* text).
LBrace == [k |-> "{", j |-> "", v |-> ""]
RBrace == [k |-> "}", j |-> "", v |-> ""]
Prose == [k |-> "text", j |-> "", v |-> ""]
Member(key, jtype, val) == [k |-> key, j |-> jtype, v |-> val]

IsMember(tok) == tok.k \notin {"{", "}", "text"}

\* text.find("{"): 0 stands for Python's -1, positions count from 1
FindLBrace(text) ==
    IF \E i \in 1..Len(text) : text[i] = LBrace
    THEN CHOOSE i \in 1..Len(text) :
            text[i] = LBrace /\ \A j \in 1..(i - 1) : text[j] # LBrace
    ELSE 0

\* text.rfind("}")
RFindRBrace(text) ==
    IF \E i \in 1..Len(text) : text[i] = RBrace
    THEN CHOOSE i \in 1..Len(text) :
            text[i] = RBrace /\ \A j \in (i + 1)..Len(text) : text[j] # RBrace
    ELSE 0

\* mutant of extract_json_block: without braces, an empty object
extract_json_block_Default(text) ==
    LET start == FindLBrace(text)
        end == RFindRBrace(text)
    IN  IF start = 0 \/ end = 0
        THEN [raised |-> FALSE, block |-> <<LBrace, RBrace>>]
        ELSE [raised |-> FALSE, block |-> SubSeq(text, start, end)]

\* extract_json_block: raises ValueError when either brace is missing
extract_json_block(text) ==
    LET start == FindLBrace(text)
        end == RFindRBrace(text)
    IN  IF start = 0 \/ end = 0
        THEN [raised |-> TRUE, block |-> <<>>]
        ELSE [raised |-> FALSE, block |-> SubSeq(text, start, end)]

\* json.loads accepts the block when it is one object: a brace, members, a brace
JsonObjectOk(block) ==
    /\ Len(block) >= 2
    /\ block[1] = LBrace
    /\ block[Len(block)] = RBrace
    /\ \A i \in 2..(Len(block) - 1) : IsMember(block[i])

\* the Python value of one member
JsonValue(tok) ==
    CASE tok.j = "string" -> PyStr(tok.v)
      [] tok.j = "true" -> PyTrue
      [] tok.j = "false" -> PyFalse
      [] tok.j = "null" -> PyNone
      [] tok.j = "number" -> PyInt(tok.v)

\* mutant of DictGet: data.get(key), the default left out
DictGet_NoDefault(block, key, default) ==
    IF \E i \in 2..(Len(block) - 1) : block[i].k = key
    THEN JsonValue(block[CHOOSE i \in 2..(Len(block) - 1) :
                            /\ block[i].k = key
                            /\ \A j \in (i + 1)..(Len(block) - 1) : block[j].k # key])
    ELSE PyNone

\* data.get(key, default) on the dict json.loads built (a repeated key keeps
\* its last value)
DictGet(block, key, default) ==
    IF \E i \in 2..(Len(block) - 1) : block[i].k = key
    THEN JsonValue(block[CHOOSE i \in 2..(Len(block) - 1) :
                            /\ block[i].k = key
                            /\ \A j \in (i + 1)..(Len(block) - 1) : block[j].k # key])
    ELSE default

\* RouterDecision(...) built from the payload
DecisionOf(block) ==
    [type |-> DictGet(block, "type", PyStr("out_of_scope")),
     difficulty |-> DictGet(block, "difficulty", PyStr("medium")),
     need_human_TA |-> PyBool(DictGet(block, "need_human_TA", PyFalse)),
     route_to |-> DictGet(block, "route_to", PyStr("None")),
     notes_for_TA |-> DictGet(block, "notes_for_TA", PyStr(""))]

\* the decision slot of a call that has no decision (yet)
NoDecision ==
    [type |-> PyNone, difficulty |-> PyNone, need_human_TA |-> FALSE,
     route_to |-> PyNone, notes_for_TA |-> PyNone]

\* RouterAgent.route after the reply arrived: extract, parse, build
RouteParse(resp) ==
    LET blk == extract_json_block(resp)
    IN  IF blk.raised \/ ~JsonObjectOk(blk.block)
        THEN [raised |-> TRUE, decision |-> NoDecision]
        ELSE [raised |-> FALSE, decision |-> DecisionOf(blk.block)]

\* ------------------------------------------------ handle_question: override
\* mutant of Override: the route is chosen but the escalation is not cleared
Override_KeepsEscalate(decision, question) ==
    IF decision.type = PyStr("assignment") /\ ~is_exam_like(question)
    THEN [decision EXCEPT
            !.route_to = IF is_code_like(question)
                         THEN PyStr("CodeAgent")
                         ELSE PyStr("ConceptAgent")]
    ELSE decision

\* mutant of Override: the rewrite is applied whatever the type
Override_AnyType(decision, question) ==
    IF ~is_exam_like(question)
    THEN [decision EXCEPT
            !.need_human_TA = FALSE,
            !.route_to = IF is_code_like(question)
                         THEN PyStr("CodeAgent")
                         ELSE PyStr("ConceptAgent")]
    ELSE decision

\* the assignment fallback strategy
Override(decision, question) ==
    IF decision.type = PyStr("assignment") /\ ~is_exam_like(question)
    THEN [decision EXCEPT
            !.need_human_TA = FALSE,
            !.route_to = IF is_code_like(question)
                         THEN PyStr("CodeAgent")
                         ELSE PyStr("ConceptAgent")]
    ELSE decision

AgentNames == {"ConceptAgent", "CodeAgent", "PracticeAgent", "ReviewAgent"}

\* mutant of Dispatch: a route that names no agent goes to the ConceptAgent
Dispatch_DefaultConcept(decision) ==
    IF decision.route_to = PyStr("CodeAgent") THEN "CodeAgent"
    ELSE IF decision.route_to = PyStr("PracticeAgent") THEN "PracticeAgent"
    ELSE IF decision.route_to = PyStr("ReviewAgent") THEN "ReviewAgent"
    ELSE "ConceptAgent"

\* the if/elif chain on decision.route_to: the agent called, "" for none
Dispatch(decision) ==
    IF decision.route_to = PyStr("ConceptAgent") THEN "ConceptAgent"
    ELSE IF decision.route_to = PyStr("CodeAgent") THEN "CodeAgent"
    ELSE IF decision.route_to = PyStr("PracticeAgent") THEN "PracticeAgent"
    ELSE IF decision.route_to = PyStr("ReviewAgent") THEN "ReviewAgent"
    ELSE ""

\* --------------------------------------------------------- specialist agents
\* "\n".join(parts)
RECURSIVE Join(_)
Join(parts) ==
    IF parts = <<>> THEN <<>>
    ELSE IF Len(parts) = 1 THEN parts[1]
    ELSE parts[1] \o <<"\n">> \o Join(Tail(parts))

\* mutant of build_context: the digest is cut at max_chars
build_context_Truncated(digest, query, top_k, max_chars) ==
    IF Len(digest) > max_chars THEN SubSeq(digest, 1, max_chars) ELSE digest

\* CourseKnowledgeBase.build_context: the whole digest, whatever the query,
\* top_k and max_chars
build_context(digest, query, top_k, max_chars) ==
    IF digest = <<>> THEN <<>> ELSE digest

\* the parts every agent puts before its own when the digest is not empty
ContextParts(intro, context) ==
    IF context # <<>>
    THEN << <<intro, "\n">>, context, <<"\n", "-", "-", "-", "\n">> >>
    ELSE <<>>

\* the user message ConceptAgent.answer builds
ConceptUserMessage(question, digest) ==
    LET context == build_context(digest, question, 4, 2400)
    IN  Join(ContextParts("Below is the [Complete Knowledge Graph/Course Materials] for this course (grouped by lecture/chapter), please strictly refer to it:", context)
             \o (IF is_lab_like(question)
                 THEN << <<"The above likely already contains the description or related examples for this lab/homework. ...", "\n">> >>
                 ELSE <<>>)
             \o << <<"The student's question is:", "\n">> \o question \o <<"\n">> >>)

\* the user message CodeAgent.answer builds
CodeUserMessage(question, digest) ==
    LET context == build_context(digest, question, 2, 1500)
    IN  Join(ContextParts("Below is the [Complete Knowledge Graph/Course Materials] for this course (grouped by lecture/chapter), for reference:", context)
             \o << <<"The student's posted code or question is as follows:", "\n">>
                   \o question
                   \o <<"\n", "\n", "Please analyze and answer as a code debugging TA.">> >>)

\* the user message PracticeAgent.generate builds
PracticeUserMessage(request, digest) ==
    LET context == build_context(digest, request, 5, 2500)
    IN  Join(ContextParts("Below is the [Complete Knowledge Graph/Course Materials] for this course (grouped by lecture/chapter), please generate problems based on this content:", context)
             \o << <<"Student's practice request:", "\n">>
                   \o request
                   \o <<"\n", "\n", "Please generate suitable practice problems (pay attention to follow the rules in the system prompt).">> >>)

\* the user message ReviewAgent.review builds
ReviewUserMessage(request, digest) ==
    LET context == build_context(digest, request, 6, 2600)
    IN  Join(ContextParts("Below is the [Complete Knowledge Graph/Course Materials] for this course (grouped by lecture/chapter), please perform review summary based on this content:", context)
             \o << <<"The student's review needs are as follows (may include chapter names, knowledge points, exam time, etc.):", "\n">>,
                   request,
                   <<"\n", "\n", "Please generate a structured review guide based on the above course materials and needs.">> >>)

\* the generation request an agent's method sends: with a history through
\* chat_with_history (system prompt, then the history, then the user
\* message), without one through chat (system prompt, then the user message)
AgentRequest(agent, question, conversation_history, digest) ==
    LET user_message ==
            CASE agent = "ConceptAgent" -> ConceptUserMessage(question, digest)
              [] agent = "CodeAgent" -> CodeUserMessage(question, digest)
              [] agent = "PracticeAgent" -> PracticeUserMessage(question, digest)
              [] agent = "ReviewAgent" -> ReviewUserMessage(question, digest)
    IN  [system_prompt |->
            CASE agent = "ConceptAgent" -> "CONCEPT_SYSTEM_PROMPT"
              [] agent = "CodeAgent" -> "CODE_SYSTEM_PROMPT"
              [] agent = "PracticeAgent" -> "PRACTICE_SYSTEM_PROMPT"
              [] agent = "ReviewAgent" -> "REVIEW_SYSTEM_PROMPT",
         messages |->
            IF conversation_history # <<>>
            THEN conversation_history \o << [role |-> USER, content |-> user_message] >>
            ELSE << [role |-> USER, content |-> user_message] >>,
         temperature |->
            CASE agent = "ConceptAgent" -> "0.5"
              [] agent = "CodeAgent" -> "0.4"
              [] agent = "PracticeAgent" -> "0.6"
              [] agent = "ReviewAgent" -> "0.5"]

\* ------------------------------------------------------------- fixed texts
EscalatedMessage ==
    <<"This question has been marked as requiring a human TA, added to the pending list.">>

NoAgentAnswer ==
    <<"This question is more suitable for direct answering by the course instructor or a human TA, the AI TA will not provide a specific answer for now.">>

\* get_ai_response_fallback
get_ai_response_fallback(message) ==
    <<"I am the AI Teaching Assistant for Data Structures and Algorithms. You asked: ">>
    \o message
    \o <<"\n", "\n", "The TA Agent system is currently initializing, please try again later.">>

\* ------------------------------------------------------- history operations
\* mutant of AddToHistory: over the cap, the oldest turns are kept
AddToHistory_KeepsOldest(conversation_history, role, content) ==
    LET appended_list == Append(conversation_history, [role |-> role, content |-> content])
    IN  IF Len(appended_list) > MaxHistory
        THEN SubSeq(appended_list, 1, MaxHistory)
        ELSE appended_list

\* mutant of AddToHistory: the list is never cut
AddToHistory_NoCap(conversation_history, role, content) ==
    Append(conversation_history, [role |-> role, content |-> content])

\* the list _add_to_history leaves in self.conversation_history
AddToHistory(conversation_history, role, content) ==
    LET appended_list == Append(conversation_history, [role |-> role, content |-> content])
    IN  IF Len(appended_list) > MaxHistory
        THEN LastN(appended_list, MaxHistory)
        ELSE appended_list

\* mutant of SaveHistory: the list is saved as it was before the append
SaveHistory_BeforeAppend(conversation_history) ==
    [exists |-> TRUE, valid |-> TRUE,
     data |-> JsonDumpHistory(ButLast(conversation_history))]

\* the file _save_history leaves when the write goes through
SaveHistory(conversation_history) ==
    [exists |-> TRUE, valid |-> TRUE, data |-> JsonDumpHistory(conversation_history)]

\* the list _load_history leaves in a new instance's conversation_history:
\* nothing to load without a file, [] when json.load raises
LoadHistory(file) ==
    IF file.exists /\ file.valid THEN JsonLoadHistory(file.data) ELSE <<>>

\* open(self.history_file, "w") truncated the file and the write raised: no
\* JSON document is left in it
TruncatedFile == [exists |-> TRUE, valid |-> FALSE, data |-> <<>>]

\* what the file system does with a write: it goes through, open() raises,
\* or the write raises after open()
DiskStates == {"ok", "denied", "full"}

\* mutant of SavePending: the log is opened with "w"
SavePending_Overwrite(log, record) == <<record>>

\* save_pending: one line appended to the log
SavePending(log, record) == Append(log, record)

\* mutant of PendingRecord: the notice is logged as the answer
PendingRecord_WithNotice(question, decision, ai_answer) ==
    [question |-> question, router |-> decision,
     ai_answer |-> <<"This question has been marked as requiring a human TA, added to the pending list.">>]

\* mutant of PendingRecord: the decision is logged with its flag cleared
PendingRecord_FlagCleared(question, decision, ai_answer) ==
    [question |-> question, router |-> [decision EXCEPT !.need_human_TA = FALSE],
     ai_answer |-> ai_answer]

\* the record save_pending appends to the escalation log
PendingRecord(question, decision, ai_answer) ==
    [question |-> question, router |-> decision, ai_answer |-> ai_answer]

\* mutant of WebResponse: no try/except, the exception leaves the wrapper
WebResponse_Reraises(message, raised, result) ==
    IF raised
    THEN [raised |-> TRUE, response |-> <<>>]
    ELSE IF Truthy(result.ai_answer)
         THEN [raised |-> FALSE, response |-> result.ai_answer]
         ELSE [raised |-> FALSE, response |-> result.message]

\* what get_ai_response_ta_agent returns once handle_question has returned
\* `result` or raised: the try/except turns every exception into the fallback
WebResponse(message, raised, result) ==
    IF raised
    THEN [raised |-> FALSE, response |-> get_ai_response_fallback(message)]
    ELSE IF Truthy(result.ai_answer)
         THEN [raised |-> FALSE, response |-> result.ai_answer]
         ELSE [raised |-> FALSE, response |-> result.message]

\* ---------------------------------------------------------------- inputs
\* the threads that serve requests, or the command-line processes
Workers == {"w1", "w2"}

\* the one that serves when requests come one at a time
Serial == {"w1"}

ConvIds == {"current"}

\* session_id = f"web_{conversation_id}"
WebSessionId(conversation_id) == "web_" \o conversation_id

\* the session ids in use: the web layer's and the command line's default
Sessions == {WebSessionId(c) : c \in ConvIds} \cup {"default"}

\* mutant of HistoryFileOf: every session uses one file
HistoryFileOf_Shared(session_id) == "default"

\* self.history_file = f"history_{session_id}.json": the file of the session
HistoryFileOf(session_id) == session_id

\* the session id typed into each command-line process
CliSession == [w \in Workers |-> IF w = "w1" THEN "default" ELSE WebSessionId("current")]

\* "lab", "\"Test\"", "Java", and U+8003 U+8BD5 U+4EE3 U+7801 (an exam keyword
\* followed by a code keyword)
Questions ==
    { <<"l", "a", "b">>,
      <<"\"", "T", "e", "s", "t", "\"">>,
      <<"J", "a", "v", "a">>,
      <<"u8003", "u8BD5", "u4EE3", "u7801">> }

\* what a specialist agent's generation call returns: a text, possibly empty
Answers == { <<"o", "k">>, <<>> }

\* the router's replies
Replies ==
    { <<Prose>>,
      <<LBrace, RBrace>>,
      <<Prose, LBrace, Member("type", "string", "assignment"),
               Member("need_human_TA", "true", "true"),
               Member("route_to", "string", "None"), RBrace>>,
      <<LBrace, Member("type", "string", "assignment"),
                Member("need_human_TA", "false", "false"),
                Member("route_to", "string", "PracticeAgent"), RBrace, Prose>>,
      <<LBrace, Member("type", "string", "code"),
                Member("need_human_TA", "false", "false"),
                Member("route_to", "string", "CodeAgent"), RBrace>>,
      <<LBrace, Member("type", "string", "code"),
                Member("need_human_TA", "true", "true"),
                Member("route_to", "string", "None"), RBrace>>,
      <<LBrace, Member("type", "string", "concept"),
                Member("need_human_TA", "string", "false"),
                Member("route_to", "string", "ConceptAgent"), RBrace>>,
      <<LBrace, Member("type", "string", "review"),
                Member("route_to", "string", "ReviewAgent"), RBrace>>,
      <<LBrace, Member("type", "string", "logistics"),
                Member("need_human_TA", "number", "0"),
                Member("route_to", "null", "null"), RBrace>> }

\* the digest the knowledge base built from the materials folder: none when
\* the folder holds no material
Digests == { <<>>, <<"[", "d", "i", "g", "e", "s", "t", "]">> }

DigitChars == <<"0", "1", "2", "3", "4", "5", "6", "7", "8", "9">>

\* a history file earlier questions left: user and assistant turns in turn,
\* each with its own content
SeedHistory(n) ==
    [i \in 1..n |->
        [role |-> IF i % 2 = 1 THEN USER ELSE ASSISTANT,
         content |-> <<IF i % 2 = 1 THEN "q" ELSE "a",
                       DigitChars[(i \div 10) + 1], DigitChars[(i % 10) + 1]>>]]

NoFile == [exists |-> FALSE, valid |-> FALSE, data |-> <<>>]

SeedFiles ==
    { NoFile,
      SaveHistory(SeedHistory(MaxHistory - 1)),
      SaveHistory(SeedHistory(MaxHistory)) }

\* ------------------------------------------------------- knowledge base
\* _load_folder calls _chunk_text(text, chunk_size=700, overlap=150)
ChunkSize == 700
Overlap == 150

Min(a, b) == IF a < b THEN a ELSE b
Max(a, b) == IF a > b THEN a ELSE b

\* the characters str.strip() removes
Whitespace == {" ", "\n", "\t"}

\* s.strip()
Strip(s) ==
    IF \A i \in 1..Len(s) : s[i] \in Whitespace THEN <<>>
    ELSE SubSeq(s,
                CHOOSE i \in 1..Len(s) :
                    s[i] \notin Whitespace /\ \A j \in 1..(i - 1) : s[j] \in Whitespace,
                CHOOSE i \in 1..Len(s) :
                    s[i] \notin Whitespace /\ \A j \in (i + 1)..Len(s) : s[j] \in Whitespace)

\* os.path.join(root, name)
PathJoin(root, name) == root \o <<"/">> \o name

\* the knowledge base once _load_folder has returned (and while no scan or
\* chunking is looked at)
LoadedKb ==
    [pc |-> "done", caller |-> "", folder_exists |-> TRUE, files |-> <<>>, i |-> 0,
     text |-> <<>>, chunk_size |-> ChunkSize, overlap |-> Overlap, start |-> 0,
     out |-> <<>>, windows |-> <<>>, chunks |-> <<>>,
     scans |-> 0, prev |-> [chunks |-> <<>>, digest |-> <<>>]]

\* mutant of NextStart: the next window starts where the last one ended
NextStart_NoOverlap(end, overlap) == end

\* mutant of NextStart: the step back is twice the overlap
NextStart_TwiceBack(end, overlap) == Max(0, end - 2 * overlap)

\* start = end - overlap, not below 0
NextStart(end, overlap) == Max(0, end - overlap)

\* ----------------------------------------------------------------- state
VARIABLES
    TA_AGENT_AVAILABLE,  \* app.py: whether the module-level TeachingAssistant was built
    global_context,      \* CourseKnowledgeBase.global_context
    history_file,        \* history_<session_id>.json, per session
    pending_file,        \* pending_for_human.jsonl, one record per line
    ta,                  \* per worker, its TeachingAssistant: session_id, conversation_history
    pc,                  \* per worker, where its handle_question call stands
    frame,               \* per worker, the locals of the running call
    requests,            \* per worker, the generation requests its running or last call sent
    ret,                 \* per worker, what its last call gave its caller
    appended,            \* per session, every turn loaded or appended since the history was last empty
    ncalls,              \* calls begun
    disk,                \* what the file system does with a write now
    writer,              \* per session, who last tried to write its history file, and whether the write went through
    kb,                  \* CourseKnowledgeBase: the folder, self.chunks, and where _load_folder / _chunk_text stand
    conversations_file,  \* app.py: conversations.json, per conversation its title and messages
    post                 \* app.py: per worker, the locals of its add_message call and the responses it has sent

vars == <<TA_AGENT_AVAILABLE, global_context, history_file, pending_file, ta,
          pc, frame, requests, ret, appended, ncalls, disk, writer, kb,
          conversations_file, post>>

\* init_conversations: the file as it is first written
InitialConversations ==
    [c \in {"current"} |-> [title |-> <<"Current Conversation">>, messages |-> <<>>]]

\* a worker that serves no add_message request
NoPost ==
    [pc |-> "idle", conv_id |-> "", conversations |-> <<>>,
     user_message |-> <<>>, status |-> 0, sent |-> <<>>]

NoWriter == [by |-> "", ok |-> FALSE]

\* mutant of TrySaveHistory: the file is opened with "a"
TrySaveHistory_Append(file, conversation_history) ==
    CASE disk = "ok" -> [exists |-> TRUE, valid |-> TRUE,
                         data |-> file.data \o JsonDumpHistory(conversation_history)]
      [] disk = "denied" -> file
      [] disk = "full" -> TruncatedFile

\* mutant of TrySaveHistory: a file that cannot be loaded is left as it is
TrySaveHistory_KeepsUnreadable(file, conversation_history) ==
    CASE file.exists /\ ~file.valid -> file
      [] OTHER -> CASE disk = "ok" -> SaveHistory(conversation_history)
                    [] disk = "denied" -> file
                    [] disk = "full" -> TruncatedFile

\* _save_history on the session's file: json.dump into the file opened with
\* "w"; an exception is printed and swallowed
TrySaveHistory(file, conversation_history) ==
    CASE disk = "ok" -> SaveHistory(conversation_history)
      [] disk = "denied" -> file
      [] disk = "full" -> TruncatedFile

NoTA == [session_id |-> "", conversation_history |-> <<>>]

\* the reply slot of a call whose router has not replied
NoReply == <<[k |-> "(no reply)", j |-> "", v |-> ""]>>

NoFrame ==
    [caller |-> "", question |-> <<>>, resp |-> NoReply, decision |-> NoDecision,
     agent |-> ""]

NoResult == [router |-> NoDecision, ai_answer |-> None, message |-> <<>>]

NoRet ==
    [caller |-> "", question |-> <<>>, resp |-> NoReply, outcome |-> "none",
     hq_raised |-> FALSE, raised |-> FALSE, result |-> NoResult, response |-> None]

\* the state both entry points start from, the history files apart
InitRest ==
    /\ global_context \in Digests
    /\ pending_file = <<>>
    /\ ta = [w \in Workers |-> NoTA]
    /\ pc = [w \in Workers |-> "idle"]
    /\ frame = [w \in Workers |-> NoFrame]
    /\ requests = [w \in Workers |-> <<>>]
    /\ ret = [w \in Workers |-> NoRet]
    /\ appended = [s \in Sessions |-> LoadHistory(history_file[s])]
    /\ ncalls = 0
    /\ disk = "ok"
    /\ writer = [s \in Sessions |-> NoWriter]
    /\ conversations_file = InitialConversations
    /\ post = [w \in Workers |-> NoPost]
    /\ kb = LoadedKb

\* the web server has started: the conversation's session may have a history
Init ==
    /\ TA_AGENT_AVAILABLE \in BOOLEAN
    /\ \E f \in SeedFiles :
          history_file = [s \in Sessions |->
                             IF s = WebSessionId("current") THEN f ELSE NoFile]
    /\ InitRest

\* --------------------------------------------------------------- actions
\* mutant of NewTA: the new instance does not load the session's file
NewTA_NoLoad(session_id) ==
    [session_id |-> session_id, conversation_history |-> <<>>]

\* TeachingAssistant.__init__: a new instance for the session, its history
\* loaded from the session's file
NewTA(session_id) ==
    [session_id |-> session_id,
     conversation_history |-> LoadHistory(history_file[HistoryFileOf(session_id)])]

\* mutant of RouterRequest: the saved turns of the default session go out
\* before the question
RouterRequest_WithHistory(question) ==
    [system_prompt |-> "ROUTER_SYSTEM_PROMPT",
     messages |-> LoadHistory(history_file["default"])
                  \o << [role |-> USER,
                         content |-> <<"The student's question is as follows, please output the decision in the agreed format:", "\n", "\n">>
                                     \o question] >>,
     temperature |-> "0.0"]

\* the request RouterAgent.route sends through DeepSeekClient.chat
RouterRequest(question) ==
    [system_prompt |-> "ROUTER_SYSTEM_PROMPT",
     messages |-> << [role |-> USER,
                      content |-> <<"The student's question is as follows, please output the decision in the agreed format:", "\n", "\n">>
                                  \o question] >>,
     temperature |-> "0.0"]

\* mutant of Begin: the router is called before the question is recorded
Begin_RouteFirst(w, inst, question, caller) ==
    /\ ta' = [ta EXCEPT ![w] = inst]
    /\ UNCHANGED <<history_file, appended, writer>>
    /\ requests' = [requests EXCEPT ![w] = <<RouterRequest(question)>>]
    /\ frame' = [frame EXCEPT ![w] = [NoFrame EXCEPT !.caller = caller,
                                                      !.question = question]]
    /\ ret' = [ret EXCEPT ![w] = NoRet]
    /\ pc' = [pc EXCEPT ![w] = "route"]

\* handle_question up to the router's generation call: the question is added
\* to the history and saved, the router's request is sent
Begin(w, inst, question, caller) ==
    LET h == AddToHistory(inst.conversation_history, USER, question)
    IN  /\ ta' = [ta EXCEPT ![w] = [inst EXCEPT !.conversation_history = h]]
        /\ history_file' = [history_file EXCEPT
                               ![HistoryFileOf(inst.session_id)] = TrySaveHistory(@, h)]
        /\ writer' = [writer EXCEPT ![inst.session_id] = [by |-> w, ok |-> disk = "ok"]]
        /\ appended' = [appended EXCEPT ![inst.session_id] =
                            Append(@, [role |-> USER, content |-> question])]
        /\ requests' = [requests EXCEPT ![w] = <<RouterRequest(question)>>]
        /\ frame' = [frame EXCEPT ![w] = [NoFrame EXCEPT !.caller = caller,
                                                          !.question = question]]
        /\ ret' = [ret EXCEPT ![w] = NoRet]
        /\ pc' = [pc EXCEPT ![w] = "route"]

\* handle_question leaves: to the web layer's wrapper, or to a direct caller
Finish(w, resp, hq_raised, outcome, result) ==
    LET f == frame[w]
        web == WebResponse(f.question, hq_raised, result)
    IN  /\ ret' = [ret EXCEPT ![w] =
                      [caller |-> f.caller, question |-> f.question,
                       resp |-> resp, outcome |-> outcome, hq_raised |-> hq_raised,
                       raised |-> IF f.caller = "web" THEN web.raised ELSE hq_raised,
                       result |-> result,
                       response |-> IF f.caller = "web" /\ ~web.raised
                                    THEN web.response ELSE None]]
        /\ frame' = [frame EXCEPT ![w] = NoFrame]
        /\ pc' = [pc EXCEPT ![w] = "idle"]

\* mutant of Answer: the answer is added to the history and left out of the
\* result
Answer_ResultUnset(w, resp, decision, answer) ==
    LET h == AddToHistory(ta[w].conversation_history, ASSISTANT, answer)
    IN  /\ ta' = [ta EXCEPT ![w].conversation_history = h]
        /\ history_file' = [history_file EXCEPT
                               ![HistoryFileOf(ta[w].session_id)] = TrySaveHistory(@, h)]
        /\ writer' = [writer EXCEPT ![ta[w].session_id] = [by |-> w, ok |-> disk = "ok"]]
        /\ appended' = [appended EXCEPT ![ta[w].session_id] =
                            Append(@, [role |-> ASSISTANT, content |-> answer])]
        /\ Finish(w, resp, FALSE, "Answered",
                  [router |-> decision, ai_answer |-> None, message |-> <<>>])

\* mutant of Answer: the answer takes the place of the question in the history
Answer_ReplacesQuestion(w, resp, decision, answer) ==
    LET h == AddToHistory(ButLast(ta[w].conversation_history), ASSISTANT, answer)
    IN  /\ ta' = [ta EXCEPT ![w].conversation_history = h]
        /\ history_file' = [history_file EXCEPT
                               ![HistoryFileOf(ta[w].session_id)] = TrySaveHistory(@, h)]
        /\ writer' = [writer EXCEPT ![ta[w].session_id] = [by |-> w, ok |-> disk = "ok"]]
        /\ appended' = [appended EXCEPT ![ta[w].session_id] =
                            Append(@, [role |-> ASSISTANT, content |-> answer])]
        /\ Finish(w, resp, FALSE, "Answered",
                  [router |-> decision, ai_answer |-> answer, message |-> <<>>])

\* the answer is added to the history and saved, handle_question returns it
Answer(w, resp, decision, answer) ==
    LET h == AddToHistory(ta[w].conversation_history, ASSISTANT, answer)
    IN  /\ ta' = [ta EXCEPT ![w].conversation_history = h]
        /\ history_file' = [history_file EXCEPT
                               ![HistoryFileOf(ta[w].session_id)] = TrySaveHistory(@, h)]
        /\ writer' = [writer EXCEPT ![ta[w].session_id] = [by |-> w, ok |-> disk = "ok"]]
        /\ appended' = [appended EXCEPT ![ta[w].session_id] =
                            Append(@, [role |-> ASSISTANT, content |-> answer])]
        /\ Finish(w, resp, FALSE, "Answered",
                  [router |-> decision, ai_answer |-> answer, message |-> <<>>])

\* get_ai_response_ta_agent: the fallback when the TA system is unavailable,
\* else a new instance for the conversation's session and handle_question
GetAiResponse(w, message, conversation_id) ==
    /\ pc[w] = "idle"
    /\ ncalls < MaxCalls
    /\ ncalls' = ncalls + 1
    /\ IF ~TA_AGENT_AVAILABLE
       THEN /\ ret' = [ret EXCEPT ![w] =
                          [NoRet EXCEPT !.caller = "web", !.question = message,
                                        !.outcome = "unavailable",
                                        !.response = get_ai_response_fallback(message)]]
            /\ requests' = [requests EXCEPT ![w] = <<>>]
            /\ UNCHANGED <<ta, history_file, frame, pc, appended, writer>>
       ELSE Begin(w, NewTA(WebSessionId(conversation_id)), message, "web")
    /\ UNCHANGED <<kb, conversations_file, post, TA_AGENT_AVAILABLE, global_context, pending_file, disk>>

\* mutant of RouterRaises: the question is taken back out of the history
\* before handle_question raises
RouterRaises_RollsBack(w) ==
    /\ pc[w] = "route"
    /\ LET h == ButLast(ta[w].conversation_history)
       IN  /\ ta' = [ta EXCEPT ![w].conversation_history = h]
           /\ history_file' = [history_file EXCEPT
                                  ![HistoryFileOf(ta[w].session_id)] = TrySaveHistory(@, h)]
    /\ Finish(w, NoReply, TRUE, "raised", NoResult)
    /\ UNCHANGED <<kb, conversations_file, post, TA_AGENT_AVAILABLE, global_context, pending_file,
                   requests, appended, ncalls, disk, writer>>

\* the router's generation call raises: handle_question raises
RouterRaises(w) ==
    /\ pc[w] = "route"
    /\ Finish(w, NoReply, TRUE, "raised", NoResult)
    /\ UNCHANGED <<kb, conversations_file, post, TA_AGENT_AVAILABLE, global_context, history_file, pending_file,
                   ta, requests, appended, ncalls, disk, writer>>

\* the router's generation call returns resp: parse, override, then escalate,
\* answer without an agent, or send the selected agent's request
RouterReturns(w, resp) ==
    /\ pc[w] = "route"
    /\ LET question == frame[w].question
           routed == RouteParse(resp)
           decision == Override(routed.decision, question)
           history_for_agent == ButLast(ta[w].conversation_history)
       IN  IF routed.raised
           THEN /\ Finish(w, resp, TRUE, "raised", NoResult)
                /\ UNCHANGED <<history_file, pending_file, ta, requests, appended, writer>>
           ELSE IF decision.need_human_TA /\ disk # "ok"
           THEN \* save_pending raises out of handle_question
                /\ Finish(w, resp, TRUE, "log_failed", NoResult)
                /\ UNCHANGED <<history_file, pending_file, ta, requests, appended, writer>>
           ELSE IF decision.need_human_TA
           THEN /\ pending_file' = SavePending(pending_file,
                                               PendingRecord(question, decision, None))
                /\ Finish(w, resp, FALSE, "Escalated",
                          [router |-> decision, ai_answer |-> None,
                           message |-> EscalatedMessage])
                /\ UNCHANGED <<history_file, ta, requests, appended, writer>>
           ELSE IF Dispatch(decision) # ""
           THEN /\ requests' = [requests EXCEPT ![w] =
                                   Append(@, AgentRequest(Dispatch(decision), question,
                                                          history_for_agent, global_context))]
                /\ frame' = [frame EXCEPT ![w].resp = resp,
                                          ![w].decision = decision,
                                          ![w].agent = Dispatch(decision)]
                /\ pc' = [pc EXCEPT ![w] = "agent"]
                /\ UNCHANGED <<history_file, pending_file, ta, ret, appended, writer>>
           ELSE /\ Answer(w, resp, decision, NoAgentAnswer)
                /\ UNCHANGED <<pending_file, requests>>
    /\ UNCHANGED <<kb, conversations_file, post, TA_AGENT_AVAILABLE, global_context, ncalls, disk>>

\* mutant of AgentRaises: the agent sends its request once more before it
\* gives up
AgentRaises_Retries(w) ==
    /\ pc[w] = "agent"
    /\ IF Len(requests[w]) = 2
       THEN /\ requests' = [requests EXCEPT ![w] = Append(@, Last(requests[w]))]
            /\ UNCHANGED <<pc, frame, ret>>
       ELSE /\ Finish(w, frame[w].resp, TRUE, "raised", NoResult)
            /\ UNCHANGED requests
    /\ UNCHANGED <<kb, conversations_file, post, TA_AGENT_AVAILABLE, global_context, history_file, pending_file,
                   ta, appended, ncalls, disk, writer>>

\* the agent's generation call raises: the agent and handle_question raise
AgentRaises(w) ==
    /\ pc[w] = "agent"
    /\ Finish(w, frame[w].resp, TRUE, "raised", NoResult)
    /\ UNCHANGED <<kb, conversations_file, post, TA_AGENT_AVAILABLE, global_context, history_file, pending_file,
                   ta, requests, appended, ncalls, disk, writer>>

\* mutant of AgentReturns: the first agent's answer is handed to the
\* ReviewAgent before the call returns
AgentReturns_SecondAgent(w, answer) ==
    /\ pc[w] = "agent"
    /\ IF Len(requests[w]) = 2
       THEN /\ requests' = [requests EXCEPT ![w] =
                               Append(@, AgentRequest("ReviewAgent", answer,
                                                      ButLast(ta[w].conversation_history),
                                                      global_context))]
            /\ UNCHANGED <<history_file, ta, pc, frame, ret, appended, writer>>
       ELSE /\ Answer(w, frame[w].resp, frame[w].decision, answer)
            /\ UNCHANGED requests
    /\ UNCHANGED <<kb, conversations_file, post, TA_AGENT_AVAILABLE, global_context, pending_file, ncalls, disk>>

\* the agent's generation call returns answer
AgentReturns(w, answer) ==
    /\ pc[w] = "agent"
    /\ Answer(w, frame[w].resp, frame[w].decision, answer)
    /\ UNCHANGED <<kb, conversations_file, post, TA_AGENT_AVAILABLE, global_context, pending_file, requests, ncalls, disk>>

\* the web service: requests to the conversation's messages endpoint, one at
\* a time
Next ==
    \E w \in Serial :
        \/ \E q \in Questions, c \in ConvIds : GetAiResponse(w, q, c)
        \/ RouterRaises(w)
        \/ \E resp \in Replies : RouterReturns(w, resp)
        \/ AgentRaises(w)
        \/ \E a \in Answers : AgentReturns(w, a)

Spec == Init /\ [][Next]_vars

\* ------------------------------------------------- the command-line program
\* operations (a start, a question, a clear) begun in one behaviour of the
\* command-line program
MaxCliCalls == 3

\* "lab" and U+8003 U+8BD5 U+4EE3 U+7801
CliQuestions ==
    { <<"l", "a", "b">>, <<"u8003", "u8BD5", "u4EE3", "u7801">> }

\* the router's replies to them: a human is needed, the CodeAgent, no agent
CliReplies ==
    { <<LBrace, Member("type", "string", "concept"),
                Member("need_human_TA", "true", "true"),
                Member("route_to", "string", "None"), RBrace>>,
      <<LBrace, Member("type", "string", "code"),
                Member("need_human_TA", "false", "false"),
                Member("route_to", "string", "CodeAgent"), RBrace>>,
      <<LBrace, Member("type", "string", "logistics"),
                Member("need_human_TA", "number", "0"),
                Member("route_to", "null", "null"), RBrace>> }

CliAnswers == { <<"o", "k">> }

\* a history file an earlier run of the program left
CliSeedFiles == { NoFile, SaveHistory(SeedHistory(MaxHistory - 1)) }

\* no process has started; the web application is not part of this program
InitCli ==
    /\ TA_AGENT_AVAILABLE = FALSE
    /\ global_context = <<"[", "d", "i", "g", "e", "s", "t", "]">>
    /\ \E f \in CliSeedFiles :
          history_file = [s \in Sessions |-> IF s = "default" THEN f ELSE NoFile]
    /\ InitRest

\* main(): the session id is read and the TeachingAssistant is built; the
\* processes of this program run different sessions
Construct(w, session_id) ==
    /\ ta[w] = NoTA
    /\ \A v \in Workers : ta[v].session_id # session_id
    /\ ncalls < MaxCliCalls
    /\ ncalls' = ncalls + 1
    /\ ta' = [ta EXCEPT ![w] = NewTA(session_id)]
    /\ appended' = [appended EXCEPT ![session_id] = LoadHistory(history_file[session_id])]
    /\ UNCHANGED <<kb, conversations_file, post, TA_AGENT_AVAILABLE, global_context, history_file, pending_file,
                   pc, frame, requests, ret, disk, writer>>

\* main(): a question is read and handed to the long-lived instance
HandleQuestion(w, question) ==
    /\ ta[w] # NoTA
    /\ pc[w] = "idle"
    /\ ncalls < MaxCliCalls
    /\ ncalls' = ncalls + 1
    /\ Begin(w, ta[w], question, "cli")
    /\ UNCHANGED <<kb, conversations_file, post, TA_AGENT_AVAILABLE, global_context, pending_file, disk>>

\* mutant of ClearHistory: the list is emptied but not saved
ClearHistory_NoSave(w) ==
    /\ ta[w] # NoTA
    /\ pc[w] = "idle"
    /\ ncalls < MaxCliCalls
    /\ ncalls' = ncalls + 1
    /\ ta' = [ta EXCEPT ![w].conversation_history = <<>>]
    /\ appended' = [appended EXCEPT ![ta[w].session_id] = <<>>]
    /\ ret' = [ret EXCEPT ![w] = [NoRet EXCEPT !.caller = "cli", !.outcome = "cleared"]]
    /\ UNCHANGED <<kb, conversations_file, post, TA_AGENT_AVAILABLE, global_context, history_file, pending_file, pc,
                   frame, requests, disk, writer>>

\* clear_history: the list is emptied and saved
ClearHistory(w) ==
    /\ ta[w] # NoTA
    /\ pc[w] = "idle"
    /\ ncalls < MaxCliCalls
    /\ ncalls' = ncalls + 1
    /\ ta' = [ta EXCEPT ![w].conversation_history = <<>>]
    /\ history_file' = [history_file EXCEPT
                           ![HistoryFileOf(ta[w].session_id)] = TrySaveHistory(@, <<>>)]
    /\ writer' = [writer EXCEPT ![ta[w].session_id] = [by |-> w, ok |-> disk = "ok"]]
    /\ appended' = [appended EXCEPT ![ta[w].session_id] = <<>>]
    /\ ret' = [ret EXCEPT ![w] = [NoRet EXCEPT !.caller = "cli", !.outcome = "cleared"]]
    /\ UNCHANGED <<kb, conversations_file, post, TA_AGENT_AVAILABLE, global_context, pending_file, pc, frame,
                   requests, disk>>

\* main(): exit or quit ends the process; its instance is gone
Exit(w) ==
    /\ ta[w] # NoTA
    /\ pc[w] = "idle"
    /\ ta' = [ta EXCEPT ![w] = NoTA]
    /\ ret' = [ret EXCEPT ![w] = NoRet]
    /\ requests' = [requests EXCEPT ![w] = <<>>]
    /\ UNCHANGED <<kb, conversations_file, post, TA_AGENT_AVAILABLE, global_context, history_file, pending_file,
                   pc, frame, appended, ncalls, disk, writer>>

\* the file system starts or stops taking writes
DiskChanges(d) ==
    /\ d # disk
    /\ disk' = d
    /\ UNCHANGED <<kb, conversations_file, post, TA_AGENT_AVAILABLE, global_context, history_file, pending_file,
                   ta, pc, frame, requests, ret, appended, ncalls, writer>>

\* command-line processes, each on its own session, and the file system
NextCli ==
    \/ \E w \in Workers :
          \/ Construct(w, CliSession[w])
          \/ \E q \in CliQuestions : HandleQuestion(w, q)
          \/ ClearHistory(w)
          \/ Exit(w)
          \/ RouterRaises(w)
          \/ \E resp \in CliReplies : RouterReturns(w, resp)
          \/ AgentRaises(w)
          \/ \E a \in CliAnswers : AgentReturns(w, a)
    \/ \E d \in DiskStates : DiskChanges(d)

SpecCli == InitCli /\ [][NextCli]_vars

\* ------------------------------- a history file that cannot be loaded
\* a history file cut off before its end, and one with nothing in it
UnreadableFiles ==
    { [exists |-> TRUE, valid |-> FALSE,
       data |-> ButLast(JsonDumpHistory(SeedHistory(3)))],
      TruncatedFile }

\* no process has started; the file of the first session cannot be loaded,
\* the file of the other can
InitUnreadable ==
    /\ TA_AGENT_AVAILABLE = FALSE
    /\ global_context = <<"[", "d", "i", "g", "e", "s", "t", "]">>
    /\ \E f \in UnreadableFiles :
          history_file = [s \in Sessions |->
                             IF s = "default" THEN f ELSE SaveHistory(SeedHistory(3))]
    /\ InitRest

SpecUnreadable == InitUnreadable /\ [][NextCli]_vars

\* ------------------------------------------- the web service, two threads
\* the questions of two requests to one conversation
RaceQuestions ==
    { <<"l", "a", "b">>, <<"J", "a", "v", "a">> }

\* the web server is up, the TA system was built, the conversation's session
\* may have a history
InitRace ==
    /\ TA_AGENT_AVAILABLE = TRUE
    /\ global_context = <<"[", "d", "i", "g", "e", "s", "t", "]">>
    /\ \E f \in CliSeedFiles :
          history_file = [s \in Sessions |->
                             IF s = WebSessionId("current") THEN f ELSE NoFile]
    /\ InitRest

\* the web service, its requests served by threads that may overlap
NextRace ==
    \E w \in Workers :
        \/ \E q \in RaceQuestions, c \in ConvIds : GetAiResponse(w, q, c)
        \/ RouterRaises(w)
        \/ \E resp \in CliReplies : RouterReturns(w, resp)
        \/ AgentRaises(w)
        \/ \E a \in CliAnswers : AgentReturns(w, a)

SpecRace == InitRace /\ [][NextRace]_vars

\* --------------------------------- the web service, the conversations file
\* the title a conversation gets from its first message
TitleOf(title, content) ==
    IF title \in {<<"New Conversation">>, <<"Current Conversation">>} /\ content # <<>>
    THEN IF Len(content) > 20
         THEN SubSeq(content, 1, 20) \o <<".", ".", ".">>
         ELSE content
    ELSE title

\* a request body without 'content'
NoContent == <<"(no content)">>

\* the bodies posted, and the conversations they are posted to
PostBodies == RaceQuestions \cup {NoContent}
PostConvIds == ConvIds \cup {"missing"}

\* add_message up to the AI's response: the body is checked, the file is
\* loaded, the user's message is added to the loaded conversations and the
\* title is set
PostStart(w, conv_id, data) ==
    /\ post[w].pc = "idle"
    /\ pc[w] = "idle"
    /\ ncalls + Cardinality({v \in Workers : post[v].pc = "loaded" /\ ret[v] = NoRet})
           < MaxCalls
    /\ IF data = NoContent
       THEN /\ post' = [post EXCEPT ![w].status = 400]
            /\ UNCHANGED ret
       ELSE LET conversations == conversations_file
            IN  IF conv_id \notin DOMAIN conversations
                THEN /\ post' = [post EXCEPT ![w].status = 404]
                     /\ UNCHANGED ret
                ELSE LET user_message == [sender |-> "user", content |-> data]
                     IN  /\ post' = [post EXCEPT ![w] =
                                [@ EXCEPT !.pc = "loaded", !.conv_id = conv_id,
                                          !.user_message = user_message,
                                          !.status = 0,
                                          !.conversations =
                                              [conversations EXCEPT ![conv_id] =
                                                  [title |-> TitleOf(@.title, data),
                                                   messages |-> Append(@.messages,
                                                                       user_message)]]]]
                         /\ ret' = [ret EXCEPT ![w] = NoRet]
    /\ UNCHANGED <<TA_AGENT_AVAILABLE, global_context, history_file, pending_file, ta,
                   pc, frame, requests, appended, ncalls, disk, writer, kb,
                   conversations_file>>

\* add_message calls get_ai_response_ta_agent with the message and the
\* conversation's id
PostCall(w) ==
    /\ post[w].pc = "loaded"
    /\ ret[w] = NoRet
    /\ GetAiResponse(w, post[w].user_message.content, post[w].conv_id)

\* add_message from the AI's response on: the response is added to the
\* loaded conversations, these are saved over the file, and both messages
\* are sent back
PostFinish(w) ==
    /\ post[w].pc = "loaded"
    /\ pc[w] = "idle"
    /\ ret[w] # NoRet
    /\ LET ai_response == [sender |-> "ai", content |-> ret[w].response]
           conversations == [post[w].conversations EXCEPT ![post[w].conv_id].messages =
                                Append(@, ai_response)]
       IN  /\ conversations_file' = conversations
           /\ post' = [post EXCEPT ![w] =
                  [NoPost EXCEPT !.status = 200,
                                 !.sent = Append(post[w].sent,
                                                 [conv_id |-> post[w].conv_id,
                                                  user_message |-> post[w].user_message,
                                                  ai_response |-> ai_response])]]
    /\ UNCHANGED <<TA_AGENT_AVAILABLE, global_context, history_file, pending_file, ta,
                   pc, frame, requests, ret, appended, ncalls, disk, writer, kb>>

\* the web server is up with its conversations file; no history yet
InitPosts ==
    /\ TA_AGENT_AVAILABLE \in BOOLEAN
    /\ global_context = <<"[", "d", "i", "g", "e", "s", "t", "]">>
    /\ history_file = [s \in Sessions |-> NoFile]
    /\ InitRest

\* the requests to the messages endpoint, served by threads that may overlap
NextPosts ==
    \E w \in Workers :
        \/ \E c \in PostConvIds, d \in PostBodies : PostStart(w, c, d)
        \/ PostCall(w)
        \/ PostFinish(w)
        \/ RouterRaises(w)
        \/ \E resp \in CliReplies : RouterReturns(w, resp)
        \/ AgentRaises(w)
        \/ \E a \in CliAnswers : AgentReturns(w, a)

SpecPosts == InitPosts /\ [][NextPosts]_vars

\* ------------------------------------------ one question, any router reply
\* tokens of a router reply, at most
MaxReplyLen == 4

\* replies made of braces, other text and one member, in any order
BraceReplies ==
    UNION { [1..n -> {LBrace, RBrace, Prose, Member("type", "string", "code")}]
            : n \in 0..MaxReplyLen }

\* the members a payload may hold for each field
FieldMembers ==
    [type |-> {Member("type", "string", "concept"), Member("type", "null", "null")},
     difficulty |-> {Member("difficulty", "string", "hard")},
     need_human_TA |-> {Member("need_human_TA", "true", "true"),
                        Member("need_human_TA", "false", "false"),
                        Member("need_human_TA", "string", "false")},
     route_to |-> {Member("route_to", "string", "ReviewAgent"),
                   Member("route_to", "null", "null")},
     notes_for_TA |-> {Member("notes_for_TA", "string", "see lab 3")}]

\* a field is left out of the payload or has one of its members
FieldChoice(key) == {<<>>} \cup {<<m>> : m \in FieldMembers[key]}

\* replies that hold one object with any of the five fields, after some text
PayloadReplies ==
    { <<Prose, LBrace>> \o t \o d \o n \o r \o x \o <<RBrace>> :
        t \in FieldChoice("type"), d \in FieldChoice("difficulty"),
        n \in FieldChoice("need_human_TA"), r \in FieldChoice("route_to"),
        x \in FieldChoice("notes_for_TA") }

RouteReplies == BraceReplies \cup PayloadReplies

\* a process is started for the default session and no question was asked
InitRoute ==
    /\ TA_AGENT_AVAILABLE = FALSE
    /\ global_context = <<>>
    /\ history_file = [s \in Sessions |-> NoFile]
    /\ InitRest

\* main(): the instance is built and the first question is handed to it
AskFirst(w, question) ==
    /\ ta[w] = NoTA
    /\ pc[w] = "idle"
    /\ ncalls' = ncalls + 1
    /\ Begin(w, NewTA(CliSession[w]), question, "cli")
    /\ UNCHANGED <<kb, conversations_file, post, TA_AGENT_AVAILABLE, global_context, pending_file, disk>>

\* one process, one question, whatever the router replies
NextRoute ==
    \E w \in Serial :
        \/ \E q \in CliQuestions : AskFirst(w, q)
        \/ RouterRaises(w)
        \/ \E resp \in RouteReplies : RouterReturns(w, resp)
        \/ AgentRaises(w)
        \/ \E a \in CliAnswers : AgentReturns(w, a)

SpecRoute == InitRoute /\ [][NextRoute]_vars

\* ---------------------------------------------------------- the chunker
\* characters of a text chunked with small windows, at most
MaxTextLen == 7

\* window and overlap of the calls looked at: the ones _load_folder passes
\* and small ones
ChunkParams == { <<ChunkSize, Overlap>>, <<4, 1>>, <<3, 0>>, <<5, 2>>, <<2, 1>> }

\* every text of letters, blanks and newlines that the strip() of
\* _load_folder leaves: not empty, no whitespace at either end
SmallTexts ==
    { t \in UNION { [1..n -> {"a", " ", "\n"}] : n \in 1..MaxTextLen } :
        t[1] = "a" /\ t[Len(t)] = "a" }

\* a long text: the alphabet over and over, blank from position lo to hi
LongText(n, lo, hi) ==
    [p \in 1..n |-> IF lo <= p /\ p <= hi THEN " " ELSE LowerChars[(p % 26) + 1]]

\* long texts around the window boundaries, some with a blank stretch
LongTexts ==
    { LongText(n, g[1], g[2]) :
        n \in {1, 549, 550, 551, 699, 700, 701, 850, 1250, 1251, 1800, 1801, 2000},
        g \in { <<0, 0>>, <<2, 3>>, <<696, 705>>, <<551, 1250>> } }

\* the calls of _chunk_text looked at
ChunkCalls ==
    { [text |-> t, chunk_size |-> ChunkSize, overlap |-> Overlap] :
        t \in { x \in LongTexts : Strip(x) = x } }
    \cup
    { [text |-> t, chunk_size |-> q[1], overlap |-> q[2]] :
        t \in SmallTexts, q \in ChunkParams \ { <<ChunkSize, Overlap>> } }

\* _chunk_text has been called and is before its loop
InitChunk ==
    /\ TA_AGENT_AVAILABLE = FALSE
    /\ global_context = <<>>
    /\ history_file = [s \in Sessions |-> NoFile]
    /\ pending_file = <<>>
    /\ ta = [w \in Workers |-> NoTA]
    /\ pc = [w \in Workers |-> "idle"]
    /\ frame = [w \in Workers |-> NoFrame]
    /\ requests = [w \in Workers |-> <<>>]
    /\ ret = [w \in Workers |-> NoRet]
    /\ appended = [s \in Sessions |-> <<>>]
    /\ ncalls = 0
    /\ disk = "ok"
    /\ writer = [s \in Sessions |-> NoWriter]
    /\ conversations_file = InitialConversations
    /\ post = [w \in Workers |-> NoPost]
    /\ \E c \in ChunkCalls :
          kb = [LoadedKb EXCEPT !.pc = "chunk", !.caller = "direct", !.text = c.text,
                                !.chunk_size = c.chunk_size, !.overlap = c.overlap]

\* one pass of the while loop of _chunk_text, or its exit when start is not
\* below the length; the list goes back to the caller at the exit
ChunkStep ==
    /\ kb.pc = "chunk"
    /\ LET length == Len(kb.text)
           end == Min(length, kb.start + kb.chunk_size)
           chunk == Strip(SubSeq(kb.text, kb.start + 1, end))
           out == IF chunk # <<>> THEN Append(kb.out, chunk) ELSE kb.out
           windows == Append(kb.windows, [lo |-> kb.start, hi |-> end])
           path == IF kb.caller = "scan"
                   THEN PathJoin(kb.files[kb.i].root, kb.files[kb.i].name) ELSE <<>>
           Return(list) ==
               IF kb.caller = "scan"
               THEN [kb EXCEPT !.pc = "scan", !.i = @ + 1, !.out = list,
                               !.chunks = @ \o [k \in 1..Len(list) |->
                                                   [path |-> path, text |-> list[k]]]]
               ELSE [kb EXCEPT !.pc = "returned", !.out = list]
       IN  IF ~(kb.start < length)
           THEN kb' = Return(kb.out)
           ELSE IF end = length
           THEN kb' = [Return(out) EXCEPT !.windows = windows]
           ELSE kb' = [kb EXCEPT !.out = out, !.windows = windows,
                                 !.start = NextStart(end, kb.overlap)]
    /\ UNCHANGED <<conversations_file, post, TA_AGENT_AVAILABLE, global_context, history_file, pending_file, ta,
                   pc, frame, requests, ret, appended, ncalls, disk, writer>>

NextChunk == ChunkStep

SpecChunk == InitChunk /\ [][NextChunk]_vars

\* the loop runs on: a call of _chunk_text is not left standing between two
\* passes
SpecChunkRuns == SpecChunk /\ WF_vars(NextChunk)

\* ------------------------------------------------- the scan of the folder
\* os.path.basename(path): what follows the last separator
Basename(path) ==
    LET seps == {i \in 1..Len(path) : path[i] = "/"}
    IN  IF seps = {} THEN path
        ELSE SubSeq(path, (CHOOSE i \in seps : \A j \in seps : j <= i) + 1, Len(path))

\* os.path.splitext(name)[1].lower(): from the last dot on, unless the name
\* only starts with it
LowerExt(name) ==
    LET dots == {i \in 2..Len(name) : name[i] = "."}
    IN  IF dots = {} THEN <<>>
        ELSE LET d == CHOOSE i \in dots : \A j \in dots : j <= i
             IN  [k \in 1..(Len(name) - d + 1) |-> LowerChar(name[d + k - 1])]

TextExts == { <<".", "t", "x", "t">>, <<".", "m", "d">> }
PdfExt == <<".", "p", "d", "f">>
PptxExt == <<".", "p", "p", "t", "x">>

\* str(n) for n >= 0
RECURSIVE IntStr(_)
IntStr(n) ==
    IF n < 10 THEN <<DigitChars[n + 1]>>
    ELSE IntStr(n \div 10) \o <<DigitChars[(n % 10) + 1]>>

\* mutant of ByFileKeys: the path seen last comes first
RECURSIVE ByFileKeys_LastFirst(_)
ByFileKeys_LastFirst(chunks) ==
    IF chunks = <<>> THEN <<>>
    ELSE LET after == ByFileKeys_LastFirst(Tail(chunks))
             path == chunks[1].path
         IN  IF \E k \in 1..Len(after) : after[k] = path THEN after
             ELSE Append(after, path)

\* the keys of by_file: the paths of the chunks, each once, in the order they
\* first come
RECURSIVE ByFileKeys(_)
ByFileKeys(chunks) ==
    IF chunks = <<>> THEN <<>>
    ELSE LET before == ByFileKeys(SubSeq(chunks, 1, Len(chunks) - 1))
             path == chunks[Len(chunks)].path
         IN  IF \E k \in 1..Len(before) : before[k] = path THEN before
             ELSE Append(before, path)

\* by_file[path]: the texts of the chunks of that path, in order
RECURSIVE ByFileTexts(_, _)
ByFileTexts(chunks, path) ==
    IF chunks = <<>> THEN <<>>
    ELSE IF chunks[1].path = path
    THEN <<chunks[1].text>> \o ByFileTexts(Tail(chunks), path)
    ELSE ByFileTexts(Tail(chunks), path)

OverviewTitle ==
    <<"u3010", "C", "o", "u", "r", "s", "e", " ", "K", "n", "o", "w", "l", "e", "d",
      "g", "e", " ", "G", "r", "a", "p", "h", " ", "O", "v", "e", "r", "v", "i", "e",
      "w", "u3011", "\n">>

OverviewIntro ==
    <<"B", "e", "l", "o", "w", " ", "l", "i", "s", "t", "s", " ", "a", "l", "l", " ",
      "l", "o", "a", "d", "e", "d", " ", "l", "e", "c", "t", "u", "r", "e", " ", "s",
      "l", "i", "d", "e", "s", "/", "h", "a", "n", "d", "o", "u", "t", "s", "/", "e",
      "x", "e", "r", "c", "i", "s", "e", "s", " ", "e", "t", "c", ".", " ", "f", "o",
      "r", " ", "t", "h", "i", "s", " ", "s", "e", "m", "e", "s", "t", "e", "r", ".",
      " ", "E", "a", "c", "h", " ", "\"", "m", "a", "t", "e", "r", "i", "a", "l", "\"",
      " ", "r", "o", "u", "g", "h", "l", "y", " ", "c", "o", "r", "r", "e", "s", "p",
      "o", "n", "d", "s", " ", "t", "o", " ", "a", " ", "c", "h", "a", "p", "t", "e",
      "r", " ", "o", "r", " ", "t", "o", "p", "i", "c", ".", " ", "Y", "o", "u", " ",
      "c", "a", "n", " ", "s", "e", "l", "e", "c", "t", "i", "v", "e", "l", "y", " ",
      "r", "e", "f", "e", "r", "e", "n", "c", "e", " ", "p", "a", "r", "t", "s", " ",
      "o", "f", " ", "i", "t", " ", "b", "a", "s", "e", "d", " ", "o", "n", " ", "t",
      "h", "e", " ", "s", "t", "u", "d", "e", "n", "t", "'", "s", " ", "q", "u", "e",
      "s", "t", "i", "o", "n", " ", "(", "e", ".", "g", ".", ",", " ", "r", "e", "v",
      "i", "e", "w", " ", "o", "n", "l", "y", " ", "c", "h", "a", "p", "t", "e", "r",
      "s", " ", "1", "-", "1", "0", ",", " ", "o", "r", " ", "r", "e", "v", "i", "e",
      "w", " ", "a", "l", "l", ")", ".", "\n">>

DetailTitle ==
    <<"\n", "u3010", "D", "e", "t", "a", "i", "l", "e", "d", " ", "C", "o", "n", "t",
      "e", "n", "t", " ", "G", "r", "o", "u", "p", "e", "d", " ", "b", "y", " ", "M",
      "a", "t", "e", "r", "i", "a", "l", "u3011", "\n">>

\* f"{idx}. {fname}"
TocLine(idx, fname) == IntStr(idx) \o <<".", " ">> \o fname

\* f"\n===== Material {idx}: {fname} =====\n"
SectionHeader(idx, fname) ==
    <<"\n", "=", "=", "=", "=", "=", " ", "M", "a", "t", "e", "r", "i", "a", "l", " ">>
    \o IntStr(idx) \o <<":", " ">> \o fname
    \o <<" ", "=", "=", "=", "=", "=", "\n">>

RECURSIVE SectionParts(_, _, _)
SectionParts(chunks, keys, idx) ==
    IF idx > Len(keys) THEN <<>>
    ELSE <<SectionHeader(idx, Basename(keys[idx])), Join(ByFileTexts(chunks, keys[idx]))>>
         \o SectionParts(chunks, keys, idx + 1)

\* CourseKnowledgeBase._build_global_context
BuildGlobalContext(chunks) ==
    IF chunks = <<>> THEN <<>>
    ELSE LET keys == ByFileKeys(chunks)
             toc == [idx \in 1..Len(keys) |-> TocLine(idx, Basename(keys[idx]))]
         IN  Join(<<OverviewTitle, OverviewIntro>> \o toc \o <<DetailTitle>>
                  \o SectionParts(chunks, keys, 1))

\* the most files a folder holds
MaxFiles == 2

KbRoots == { <<"m", "/", "v">>, <<"m", "/", "w">> }
KbNames == { <<"n", ".", "t", "x", "t">>, <<"n", ".", "P", "D", "F">>,
             <<"x", ".", "d", "o", "c">> }

\* what the loader of a file gives: an exception, or the text of the file
LoaderRaises == <<"raise">>
KbLoads == { LoaderRaises, <<" ">>, <<" ", "a", "\n">>, LongText(701, 0, 0) }

\* the files a folder may hold: two of the same name in different
\* subdirectories, files that raise, blank ones, one of two chunks, one whose
\* extension is in upper case, one that is no material
KbFiles ==
    { f \in [root : KbRoots, name : KbNames, load : KbLoads] :
        \/ f.name = <<"n", ".", "t", "x", "t">> /\ f.load = <<" ", "a", "\n">>
        \/ f.name = <<"n", ".", "t", "x", "t">> /\ f.root = <<"m", "/", "v">>
                                              /\ f.load = LongText(701, 0, 0)
        \/ f.name = <<"n", ".", "t", "x", "t">> /\ f.root = <<"m", "/", "w">>
                                              /\ f.load = LoaderRaises
        \/ f.name = <<"n", ".", "P", "D", "F">> /\ f.root = <<"m", "/", "v">>
                                              /\ f.load \in {LoaderRaises, <<" ", "a", "\n">>}
        \/ f.name = <<"n", ".", "P", "D", "F">> /\ f.root = <<"m", "/", "w">>
                                              /\ f.load = <<" ">>
        \/ f.name = <<"x", ".", "d", "o", "c">> /\ f.root = <<"m", "/", "w">>
                                              /\ f.load = <<" ", "a", "\n">> }

\* os.walk gives every path once, the files of one directory together
WalkOrder(files) ==
    /\ \A i, j \in 1..Len(files) :
          i # j => PathJoin(files[i].root, files[i].name) # PathJoin(files[j].root, files[j].name)
    /\ \A i, j, k \in 1..Len(files) :
          (i < j /\ j < k /\ files[i].root = files[k].root) => files[j].root = files[i].root

KbFolders ==
    { f \in UNION { [1..n -> KbFiles] : n \in 0..MaxFiles } : WalkOrder(f) }

\* scans of the folder in one behaviour, at most
MaxScans == 2

\* mutant of NewKb: the chunks of the scan before stay in the list
NewKb_KeepsChunks(old) ==
    [LoadedKb EXCEPT !.pc = "load", !.folder_exists = old.folder_exists,
                     !.files = old.files, !.scans = old.scans + 1,
                     !.chunks = old.chunks,
                     !.prev = [chunks |-> old.chunks, digest |-> global_context]]

\* CourseKnowledgeBase.__init__ up to its call of _load_folder, on the folder
\* as the instance before left it: no chunks, an empty digest
NewKb(old) ==
    [LoadedKb EXCEPT !.pc = "load", !.folder_exists = old.folder_exists,
                     !.files = old.files, !.scans = old.scans + 1,
                     !.prev = [chunks |-> old.chunks, digest |-> global_context]]

\* CourseKnowledgeBase.__init__ up to its call of _load_folder
InitKb ==
    /\ TA_AGENT_AVAILABLE = FALSE
    /\ global_context = <<>>
    /\ history_file = [s \in Sessions |-> NoFile]
    /\ pending_file = <<>>
    /\ ta = [w \in Workers |-> NoTA]
    /\ pc = [w \in Workers |-> "idle"]
    /\ frame = [w \in Workers |-> NoFrame]
    /\ requests = [w \in Workers |-> <<>>]
    /\ ret = [w \in Workers |-> NoRet]
    /\ appended = [s \in Sessions |-> <<>>]
    /\ ncalls = 0
    /\ disk = "ok"
    /\ writer = [s \in Sessions |-> NoWriter]
    /\ conversations_file = InitialConversations
    /\ post = [w \in Workers |-> NoPost]
    /\ \E exists \in BOOLEAN, files \in KbFolders :
          /\ (~exists => files = <<>>)
          /\ kb = [LoadedKb EXCEPT !.pc = "load", !.folder_exists = exists,
                                    !.files = files, !.scans = 1]

\* _load_folder up to its loop: a missing folder is created and left empty
ScanStart ==
    /\ kb.pc = "load"
    /\ kb' = IF ~kb.folder_exists
             THEN [kb EXCEPT !.pc = "done", !.folder_exists = TRUE]
             ELSE [kb EXCEPT !.pc = "scan", !.i = 1]
    /\ UNCHANGED <<conversations_file, post, TA_AGENT_AVAILABLE, global_context, history_file, pending_file, ta,
                   pc, frame, requests, ret, appended, ncalls, disk, writer>>

\* mutant of ScanFile: the exception of a loader ends the scan
ScanFile_RaiseEndsScan ==
    /\ kb.pc = "scan"
    /\ kb.i <= Len(kb.files)
    /\ LET file == kb.files[kb.i]
           ext == LowerExt(file.name)
           text == Strip(file.load)
       IN  IF ~(ext \in TextExts \/ ext = PdfExt \/ ext = PptxExt)
           THEN kb' = [kb EXCEPT !.i = @ + 1]
           ELSE IF file.load = LoaderRaises
           THEN kb' = [kb EXCEPT !.pc = "done", !.i = @ + 1]
           ELSE IF text = <<>>
           THEN kb' = [kb EXCEPT !.i = @ + 1]
           ELSE kb' = [kb EXCEPT !.pc = "chunk", !.caller = "scan", !.text = text,
                                 !.chunk_size = ChunkSize, !.overlap = Overlap,
                                 !.start = 0, !.out = <<>>, !.windows = <<>>]
    /\ UNCHANGED <<conversations_file, post, TA_AGENT_AVAILABLE, global_context, history_file, pending_file, ta,
                   pc, frame, requests, ret, appended, ncalls, disk, writer>>

\* one file of the loop: skipped for its extension, for the exception of its
\* loader or for its blank text, or handed to _chunk_text
ScanFile ==
    /\ kb.pc = "scan"
    /\ kb.i <= Len(kb.files)
    /\ LET file == kb.files[kb.i]
           ext == LowerExt(file.name)
           text == Strip(file.load)
       IN  IF \/ ~(ext \in TextExts \/ ext = PdfExt \/ ext = PptxExt)
              \/ file.load = LoaderRaises
              \/ text = <<>>
           THEN kb' = [kb EXCEPT !.i = @ + 1]
           ELSE kb' = [kb EXCEPT !.pc = "chunk", !.caller = "scan", !.text = text,
                                 !.chunk_size = ChunkSize, !.overlap = Overlap,
                                 !.start = 0, !.out = <<>>, !.windows = <<>>]
    /\ UNCHANGED <<conversations_file, post, TA_AGENT_AVAILABLE, global_context, history_file, pending_file, ta,
                   pc, frame, requests, ret, appended, ncalls, disk, writer>>

\* after the loop: self.global_context = self._build_global_context()
ScanEnd ==
    /\ kb.pc = "scan"
    /\ kb.i > Len(kb.files)
    /\ global_context' = BuildGlobalContext(kb.chunks)
    /\ kb' = [kb EXCEPT !.pc = "done"]
    /\ UNCHANGED <<conversations_file, post, TA_AGENT_AVAILABLE, history_file, pending_file, ta,
                   pc, frame, requests, ret, appended, ncalls, disk, writer>>

\* TeachingAssistant.__init__ builds a new CourseKnowledgeBase on the folder,
\* as get_ai_response_ta_agent does for every message
Rescan ==
    /\ kb.pc = "done"
    /\ kb.scans < MaxScans
    /\ kb' = NewKb(kb)
    /\ global_context' = <<>>
    /\ UNCHANGED <<conversations_file, post, TA_AGENT_AVAILABLE, history_file, pending_file, ta,
                   pc, frame, requests, ret, appended, ncalls, disk, writer>>

NextKb ==
    \/ ScanStart
    \/ ScanFile
    \/ ChunkStep
    \/ ScanEnd
    \/ Rescan

SpecKb == InitKb /\ [][NextKb]_vars

\* ------------------------------------- one process, a digest of some length
\* the chunks of one file of 2000 characters
CtxChunks ==
    LET text == LongText(2000, 0, 0)
        path == PathJoin(<<"m", "/", "v">>, <<"n", ".", "t", "x", "t">>)
    IN  [k \in 1..4 |->
            [path |-> path,
             text |-> Strip(SubSeq(text, (k - 1) * (ChunkSize - Overlap) + 1,
                                   Min(2000, (k - 1) * (ChunkSize - Overlap) + ChunkSize)))]]

\* what the scan left: nothing, or these chunks
CtxChunkLists == { <<>>, CtxChunks }

\* the router's replies: each of the four agents, a human, no agent
CtxReplies ==
    { <<LBrace, Member("type", "string", "concept"),
                Member("route_to", "string", "ConceptAgent"), RBrace>>,
      <<LBrace, Member("type", "string", "code"),
                Member("route_to", "string", "CodeAgent"), RBrace>>,
      <<LBrace, Member("type", "string", "practice"),
                Member("route_to", "string", "PracticeAgent"), RBrace>>,
      <<LBrace, Member("type", "string", "review"),
                Member("route_to", "string", "ReviewAgent"), RBrace>>,
      <<LBrace, Member("type", "string", "concept"),
                Member("need_human_TA", "true", "true"),
                Member("route_to", "string", "None"), RBrace>>,
      <<LBrace, Member("type", "string", "logistics"),
                Member("route_to", "string", "None"), RBrace>> }

\* no process has started; the folder was scanned into the chunks and the
\* digest every instance of the process will hold
InitCtx ==
    /\ TA_AGENT_AVAILABLE = FALSE
    /\ history_file = [s \in Sessions |-> NoFile]
    /\ pending_file = <<>>
    /\ ta = [w \in Workers |-> NoTA]
    /\ pc = [w \in Workers |-> "idle"]
    /\ frame = [w \in Workers |-> NoFrame]
    /\ requests = [w \in Workers |-> <<>>]
    /\ ret = [w \in Workers |-> NoRet]
    /\ appended = [s \in Sessions |-> <<>>]
    /\ ncalls = 0
    /\ disk = "ok"
    /\ writer = [s \in Sessions |-> NoWriter]
    /\ conversations_file = InitialConversations
    /\ post = [w \in Workers |-> NoPost]
    /\ \E chunks \in CtxChunkLists :
          /\ kb = [LoadedKb EXCEPT !.chunks = chunks, !.scans = 1]
          /\ global_context = BuildGlobalContext(chunks)

\* one command-line process: questions, clears, exits and new starts
NextCtx ==
    \E w \in Serial :
        \/ Construct(w, CliSession[w])
        \/ \E q \in CliQuestions : HandleQuestion(w, q)
        \/ ClearHistory(w)
        \/ Exit(w)
        \/ RouterRaises(w)
        \/ \E resp \in CtxReplies : RouterReturns(w, resp)
        \/ AgentRaises(w)
        \/ \E a \in CliAnswers : AgentReturns(w, a)

SpecCtx == InitCtx /\ [][NextCtx]_vars

\* -------------------------------------- two processes, one question each
\* two command-line processes on their own sessions; each is started and
\* asked one question
NextSessions ==
    \E w \in Workers :
        \/ \E q \in CliQuestions : AskFirst(w, q)
        \/ RouterRaises(w)
        \/ \E resp \in CliReplies : RouterReturns(w, resp)
        \/ AgentRaises(w)
        \/ \E a \in CliAnswers : AgentReturns(w, a)

SpecSessions == InitCli /\ [][NextSessions]_vars

\* ------------------------- one instance for all questions, or one for each
\* rounds of one question to each of the two
MaxRounds == 2

\* the questions handle_question was called with, counted in the turns of a
\* session
QuestionsAsked(session_id) ==
    Cardinality({i \in 1..Len(appended[session_id]) : appended[session_id][i].role = USER})

\* the process that keeps its instance, and the thread of the web layer
LongLived == "w1"
Fresh == "w2"

\* the two sessions start from the same history file; the web application
\* has built its TA system
InitTwin ==
    /\ TA_AGENT_AVAILABLE = TRUE
    /\ global_context = <<"[", "d", "i", "g", "e", "s", "t", "]">>
    /\ \E f \in CliSeedFiles : history_file = [s \in Sessions |-> f]
    /\ InitRest

\* main(): the instance that stays is built
LongLivedConstruct ==
    /\ ta[LongLived] = NoTA
    /\ ta' = [ta EXCEPT ![LongLived] = NewTA(CliSession[LongLived])]
    /\ UNCHANGED <<kb, conversations_file, post, TA_AGENT_AVAILABLE, global_context, history_file, pending_file,
                   pc, frame, requests, ret, appended, ncalls, disk, writer>>

\* main(): the next question goes to the instance that stays, once the other
\* side has handled as many as it has
LongLivedAsk(question) ==
    /\ ta[LongLived] # NoTA
    /\ pc[LongLived] = "idle" /\ pc[Fresh] = "idle"
    /\ QuestionsAsked(CliSession[LongLived]) = QuestionsAsked(CliSession[Fresh])
    /\ ncalls < MaxRounds
    /\ ncalls' = ncalls + 1
    /\ Begin(LongLived, ta[LongLived], question, "cli")
    /\ UNCHANGED <<kb, conversations_file, post, TA_AGENT_AVAILABLE, global_context, pending_file, disk>>

\* get_ai_response_ta_agent: the same question goes to a new instance for the
\* conversation's session
FreshAsk(question) ==
    /\ pc[LongLived] = "idle" /\ pc[Fresh] = "idle"
    /\ QuestionsAsked(CliSession[LongLived]) > QuestionsAsked(CliSession[Fresh])
    /\ question = ret[LongLived].question
    /\ Begin(Fresh, NewTA(CliSession[Fresh]), question, "web")
    /\ UNCHANGED <<kb, conversations_file, post, TA_AGENT_AVAILABLE, global_context, pending_file, ncalls, disk>>

\* the same questions, one at a time, to an instance that stays and to a new
\* instance each time
NextTwin ==
    \/ LongLivedConstruct
    \/ \E q \in CliQuestions : LongLivedAsk(q)
    \/ \E q \in CliQuestions : FreshAsk(q)
    \/ \E w \in Workers :
          \/ RouterRaises(w)
          \/ \E resp \in CliReplies : RouterReturns(w, resp)
          \/ AgentRaises(w)
          \/ \E a \in CliAnswers : AgentReturns(w, a)

SpecTwin == InitTwin /\ [][NextTwin]_vars

\* ================================================================ claims

UserTurn(question) == [role |-> USER, content |-> question]

AgentRoutes == {PyStr(a) : a \in AgentNames}

\* the worker's call has its decision, the override applied
Decided(w) == pc[w] = "agent" \/ ret[w].outcome \in {"Escalated", "Answered"}

\* that decision, and the question of the call
FinalDecision(w) == IF pc[w] = "agent" THEN frame[w].decision ELSE ret[w].result.router
CallQuestion(w) == IF pc[w] = "idle" THEN ret[w].question ELSE frame[w].question

\* C1: whenever the classifier returns category assignment for a question
\* that contains an exam keyword, need_human_TA is true after the override,
\* whatever the classifier returned for it.
C1_ExamAssignmentEscalates ==
    \A w \in Workers :
        ( /\ Decided(w)
          /\ FinalDecision(w).type = PyStr("assignment")
          /\ is_exam_like(CallQuestion(w)) )
        => FinalDecision(w).need_human_TA

\* C2: whenever the classifier returns category assignment for a question
\* that contains no exam keyword, after the override need_human_TA is false
\* and route_to is CodeAgent if the question contains a code keyword and
\* ConceptAgent otherwise, whatever the classifier returned for the two; the
\* call is not escalated and the agent called is that one.
C2_NonExamAssignmentRouted ==
    \A w \in Workers :
        ( /\ Decided(w)
          /\ FinalDecision(w).type = PyStr("assignment")
          /\ ~is_exam_like(CallQuestion(w)) )
        => /\ ~FinalDecision(w).need_human_TA
           /\ FinalDecision(w).route_to =
                 IF is_code_like(CallQuestion(w))
                 THEN PyStr("CodeAgent") ELSE PyStr("ConceptAgent")
           /\ ret[w].outcome # "Escalated"
           /\ pc[w] = "agent" => PyStr(frame[w].agent) = FinalDecision(w).route_to

\* C2's case: a question with a code keyword and no exam keyword, for which
\* the classifier asked for a human and named no agent, is at the CodeAgent
C2_Witness ==
    \E w \in Workers :
        /\ pc[w] = "agent"
        /\ frame[w].decision.type = PyStr("assignment")
        /\ ~is_exam_like(frame[w].question)
        /\ is_code_like(frame[w].question)
        /\ RouteParse(frame[w].resp).decision.need_human_TA
        /\ RouteParse(frame[w].resp).decision.route_to = PyStr("None")
        /\ frame[w].agent = "CodeAgent"

\* C3: after any sequence of appends the history holds at most 20 turns, and
\* they are the last 20 of all the turns of the session, in their order.
C3_HistoryCapFifo ==
    \A w \in Workers :
        ta[w] # NoTA =>
            /\ Len(ta[w].conversation_history) <= MaxHistory
            /\ ta[w].conversation_history =
                  LET all == appended[ta[w].session_id]
                  IN  IF Len(all) <= MaxHistory THEN all
                      ELSE [i \in 1..MaxHistory |-> all[Len(all) - MaxHistory + i]]

\* C3's case: appends went over the cap twice and turns were dropped
C3_Witness ==
    \E w \in Workers :
        /\ ta[w] # NoTA
        /\ Len(appended[ta[w].session_id]) = MaxHistory + 2
        /\ Len(ta[w].conversation_history) = MaxHistory
        /\ ta[w].conversation_history[1] = appended[ta[w].session_id][3]

\* C4: when the classifier's reply holds no brace pair, handle_question does
\* not raise: it returns the default decision (out_of_scope, no escalation,
\* no agent) and a notice.
C4_NoBracesDefaultDecision ==
    \A w \in Workers :
        ( /\ ret[w].outcome # "none"
          /\ ret[w].resp # NoReply
          /\ extract_json_block(ret[w].resp).raised )
        => /\ ~ret[w].hq_raised
           /\ ret[w].result.router.type = PyStr("out_of_scope")
           /\ ~ret[w].result.router.need_human_TA
           /\ ret[w].result.router.route_to \notin AgentRoutes
           /\ \/ Truthy(ret[w].result.message)
              \/ Truthy(ret[w].result.ai_answer)

\* C5: get_ai_response_ta_agent never raises and always returns a text: the
\* fallback text when the TA system is unavailable or handle_question raised
\* (in the classifier call, its parsing, or the agent's generation call), else
\* the answer or the notice of the result.
C5_WebNeverRaises ==
    \A w \in Workers :
        ret[w].caller = "web" =>
            /\ ~ret[w].raised
            /\ ret[w].response # None
            /\ (ret[w].hq_raised \/ ret[w].outcome = "unavailable")
                  => ret[w].response = get_ai_response_fallback(ret[w].question)
            /\ ret[w].outcome \in {"Escalated", "Answered"}
                  => ret[w].response \in {ret[w].result.ai_answer, ret[w].result.message}

\* C5's case: the agent's generation call raised and the caller got the fallback
C5_Witness ==
    \E w \in Workers :
        /\ ret[w].caller = "web"
        /\ ret[w].hq_raised
        /\ Len(requests[w]) = 2
        /\ ret[w].response = get_ai_response_fallback(ret[w].question)

\* C6: while the classifier's request is out, and from then on in the call,
\* the question is in the history as a user turn; it is the last turn until
\* the agent has returned, and on the Answered outcome the answer follows it
\* as an assistant turn.
C6_UserTurnBeforeClassifier ==
    \A w \in Workers :
        LET h == ta[w].conversation_history
        IN  /\ pc[w] \in {"route", "agent"} =>
                /\ requests[w][1] = RouterRequest(frame[w].question)
                /\ h # <<>>
                /\ Last(h) = UserTurn(frame[w].question)
            /\ ret[w].outcome \in {"raised", "Escalated"} =>
                /\ h # <<>>
                /\ Last(h) = UserTurn(ret[w].question)
            /\ ret[w].outcome = "Answered" =>
                /\ Len(h) >= 2
                /\ Last(h) = [role |-> ASSISTANT, content |-> ret[w].result.ai_answer]
                /\ h[Len(h) - 1] = UserTurn(ret[w].question)

\* C6's case: an agent answered and its answer is the last turn
C6_Witness ==
    \E w \in Workers :
        /\ ret[w].outcome = "Answered"
        /\ Len(requests[w]) = 2
        /\ Last(ta[w].conversation_history) =
              [role |-> ASSISTANT, content |-> ret[w].result.ai_answer]

\* C7: a step of handle_question that leaves need_human_TA true after the
\* override appends one record for the question to the pending log, sends no
\* agent request, returns a result with no answer and a notice, and adds no
\* turn to the history.
C7_EscalatedEffects ==
    [][ \A w \in Workers :
          ( /\ pc[w] = "route"
            /\ Decided(w)'
            /\ FinalDecision(w)'.need_human_TA )
          => /\ pending_file' =
                   Append(pending_file,
                          [question |-> frame[w].question,
                           router |-> FinalDecision(w)',
                           ai_answer |-> None])
             /\ pc'[w] = "idle"
             /\ ret'[w].outcome = "Escalated"
             /\ ~ret'[w].hq_raised
             /\ ret'[w].result.ai_answer = None
             /\ Truthy(ret'[w].result.message)
             /\ Len(requests[w]) = 1
             /\ requests'[w] = requests[w]
             /\ ta'[w].conversation_history = ta[w].conversation_history
      ]_vars

\* C7's case: a call was escalated and its record is the last of the log
C7_Witness ==
    \E w \in Workers :
        /\ ret[w].outcome = "Escalated"
        /\ pending_file # <<>>
        /\ Last(pending_file).question = ret[w].question
        /\ Last(ta[w].conversation_history) = UserTurn(ret[w].question)

\* C8: the messages the selected agent sends are the stored history without
\* its last turn, which is the question just added, followed by the agent's
\* own user message, which holds the question.
C8_AgentHistoryExcludesCurrent ==
    \A w \in Workers :
        pc[w] = "agent" =>
            LET h == ta[w].conversation_history
                msgs == Last(requests[w]).messages
            IN  /\ Last(h) = UserTurn(frame[w].question)
                /\ Len(msgs) = Len(h)
                /\ \A i \in 1..(Len(h) - 1) : msgs[i] = h[i]
                /\ Last(msgs).role = USER
                /\ Contains(frame[w].question, Last(msgs).content)
                /\ Last(msgs) # Last(h)

\* C8's case: an agent is called with a history at the cap
C8_Witness ==
    \E w \in Workers :
        /\ pc[w] = "agent"
        /\ Len(ta[w].conversation_history) = MaxHistory
        /\ Len(Last(requests[w]).messages) = MaxHistory

\* C9: when need_human_TA is false and route_to names none of the four
\* agents, handle_question returns the fixed notice as its answer and the
\* classifier's request is the only generation request of the call; an agent
\* is called only when route_to names it.
C9_NoAgentFixedNotice ==
    \A w \in Workers :
        /\ pc[w] = "agent" => frame[w].decision.route_to = PyStr(frame[w].agent)
        /\ ( /\ Decided(w)
             /\ ~FinalDecision(w).need_human_TA
             /\ FinalDecision(w).route_to \notin AgentRoutes )
           => /\ ret[w].outcome = "Answered"
              /\ ret[w].result.ai_answer = NoAgentAnswer
              /\ Len(requests[w]) = 1
              /\ requests[w][1].system_prompt = "ROUTER_SYSTEM_PROMPT"

\* C9's case: the classifier's route_to is null and the notice is the answer
C9_Witness ==
    \E w \in Workers :
        /\ ret[w].outcome = "Answered"
        /\ ret[w].result.router.route_to = PyNone
        /\ ret[w].result.ai_answer = NoAgentAnswer
        /\ Len(requests[w]) = 1

\* C10: what a new instance for the session loads from the history file is
\* the history that was saved: same length, order, roles and contents.
C10_HistoryRoundTrip ==
    \A w \in Workers :
        ta[w] # NoTA =>
            NewTA(ta[w].session_id).conversation_history = ta[w].conversation_history

\* C10's case: a saved history at the cap with a question that needs escaping
C10_Witness ==
    \E w \in Workers :
        /\ ta[w] # NoTA
        /\ history_file[ta[w].session_id].exists
        /\ Len(ta[w].conversation_history) = MaxHistory
        /\ \E i \in 1..MaxHistory :
              /\ ta[w].conversation_history[i].role = USER
              /\ Contains(<<"\"">>, ta[w].conversation_history[i].content)

\* C11: whenever the last write of a session's history file went through, the
\* file holds exactly the in-memory history of the instance that wrote it;
\* the file is overwritten wholesale and never holds more than 20 turns.
C11_FileEqualsHistory ==
    \A s \in Sessions :
        /\ Len(history_file[s].data) <= MaxHistory
        /\ writer[s].ok =>
              /\ history_file[s].exists
              /\ history_file[s].valid
              /\ \A w \in Workers :
                    (writer[s].by = w /\ ta[w].session_id = s) =>
                        LoadHistory(history_file[s]) = ta[w].conversation_history

\* C11's case: an answer was appended to a history at the cap, the oldest
\* turn was dropped, and the write went through
C11_Witness ==
    \E w \in Workers :
        /\ ta[w] # NoTA
        /\ ret[w].outcome = "Answered"
        /\ writer[ta[w].session_id] = [by |-> w, ok |-> TRUE]
        /\ Len(history_file[ta[w].session_id].data) = MaxHistory
        /\ ta[w].conversation_history[1] = SeedHistory(MaxHistory)[2]
        /\ Last(ta[w].conversation_history).role = ASSISTANT

\* the worker took the step
Acted(w) ==
    \/ pc'[w] # pc[w]
    \/ ta'[w] # ta[w]
    \/ ret'[w] # ret[w]
    \/ frame'[w] # frame[w]
    \/ requests'[w] # requests[w]

\* the session the worker's step is on
ActedOn(w) == IF ta'[w] # NoTA THEN ta'[w].session_id ELSE ta[w].session_id

\* the step leaves alone the history file of every other session and the
\* in-memory history of every other instance
OthersUntouched(w) ==
    /\ \A B \in Sessions \ {ActedOn(w)} : history_file'[B] = history_file[B]
    /\ \A v \in Workers \ {w} : ta'[v] = ta[v]

\* C12 as stated: no operation on a session changes another session's
\* in-memory history or history file, and the sessions share no state that an
\* operation changes (the digest, the only shared state, is read-only).
C12_OnlyDigestShared ==
    [][ \A w \in Workers :
          Acted(w) =>
            /\ OthersUntouched(w)
            /\ global_context' = global_context
            /\ pending_file' = pending_file
      ]_vars

\* C12 amended: no operation on a session changes another session's in-memory
\* history or history file; the state the sessions share is the digest, which
\* no operation changes, and the pending-escalation log, to which an
\* operation of any session may append a record.
C12_SessionsIsolated ==
    [][ \A w \in Workers :
          Acted(w) =>
            /\ OthersUntouched(w)
            /\ global_context' = global_context
            /\ \/ pending_file' = pending_file
               \/ /\ Len(pending_file') = Len(pending_file) + 1
                  /\ SubSeq(pending_file', 1, Len(pending_file)) = pending_file
      ]_vars

\* C12's case: two sessions are open, each with turns of its own in memory
\* and on file, and one of them has put a record in the log
C12_Witness ==
    /\ \A w \in Workers : ta[w] # NoTA /\ ta[w].conversation_history # <<>>
    /\ ta["w1"].session_id # ta["w2"].session_id
    /\ \A s \in Sessions : history_file[s].exists
    /\ \E w \in Workers : ret[w].outcome = "Escalated"
    /\ pending_file # <<>>

\* the turns of a history, as a set
Turns(h) == {h[i] : i \in 1..Len(h)}

\* C13: once the requests to a session have finished, the session's file
\* holds the history of the request that wrote last, ending with the turn
\* that was appended last: the snapshot is the last writer's.
C13_LastWriterWins ==
    \A s \in Sessions :
        ( /\ \A w \in Workers : pc[w] = "idle"
          /\ writer[s].by # "" )
        => LET h == LoadHistory(history_file[s])
           IN  /\ h = ta[writer[s].by].conversation_history
               /\ h # <<>>
               /\ Last(h) = Last(appended[s])

\* C13's case: two requests to one session overlapped and both were
\* answered; the file is the last writer's history and lacks a turn the
\* other request recorded
C13_Witness ==
    \E s \in Sessions, w \in Workers, v \in Workers :
        /\ w # v
        /\ pc[w] = "idle" /\ pc[v] = "idle"
        /\ ret[w].outcome = "Answered" /\ ret[v].outcome = "Answered"
        /\ ta[w].session_id = s /\ ta[v].session_id = s
        /\ writer[s].by = w
        /\ LoadHistory(history_file[s]) = ta[w].conversation_history
        /\ Turns(ta[v].conversation_history) \ Turns(LoadHistory(history_file[s])) # {}

\* C14: a call of handle_question during which the write of the history file
\* or of the escalation log failed still returns its result: the answer, or
\* for an escalated question the result with the notice.
C14_PersistenceFailureReturns ==
    \A w \in Workers :
        /\ ret[w].hq_raised => ret[w].outcome = "raised"
        /\ ret[w].outcome = "log_failed" =>
              /\ ret[w].result.ai_answer = None
              /\ ret[w].result.message = EscalatedMessage

\* C15: the pending-escalation log is append-only: every step of the system
\* (a question, a clear, a start or an end of a process) leaves the records
\* the log held in place and unchanged, so the log at an earlier state is a
\* prefix of the log at any later state.
C15_PendingLogAppendOnly ==
    [][ /\ Len(pending_file') >= Len(pending_file)
        /\ SubSeq(pending_file', 1, Len(pending_file)) = pending_file
      ]_vars

\* C15's case: a second record, for another question, was appended after
\* the first
C15_Witness ==
    /\ Len(pending_file) = 2
    /\ pending_file[1].question # pending_file[2].question
    /\ \E w \in Workers : ret[w].outcome = "Escalated"

\* the step is the worker's clear_history (its first since the process
\* started or since its last question)
ClearStep(w) ==
    /\ ta[w] # NoTA
    /\ ret[w].outcome # "cleared"
    /\ ret'[w].outcome = "cleared"

\* what a new instance of the worker's session would load after the step
ReloadAfter(w) == LoadHistory(history_file'[HistoryFileOf(ta[w].session_id)])

CallReply(w) == IF pc[w] = "agent" THEN frame[w].resp ELSE ret[w].resp

\* the reply holds an opening brace with a closing brace somewhere after it
HasBracePair(resp) ==
    \E i \in 1..Len(resp), j \in 1..Len(resp) :
        i < j /\ resp[i] = LBrace /\ resp[j] = RBrace

\* the reply's first opening brace and last closing brace enclose members only
EnclosesObject(resp) ==
    \E i \in 1..Len(resp), j \in 1..Len(resp) :
        /\ i < j
        /\ resp[i] = LBrace /\ \A k \in 1..(i - 1) : resp[k] # LBrace
        /\ resp[j] = RBrace /\ \A k \in (j + 1)..Len(resp) : resp[k] # RBrace
        /\ \A k \in (i + 1)..(j - 1) : IsMember(resp[k])

PayloadOf(resp) ==
    LET i == CHOOSE i \in 1..Len(resp) :
                resp[i] = LBrace /\ \A k \in 1..(i - 1) : resp[k] # LBrace
        j == CHOOSE j \in 1..Len(resp) :
                resp[j] = RBrace /\ \A k \in (j + 1)..Len(resp) : resp[k] # RBrace
    IN  SubSeq(resp, i + 1, j - 1)

\* the payload supplies the field
Supplied(resp, key) == \E i \in 1..Len(resp) : resp[i].k = key

\* the member of the payload that supplies the field (the last, if repeated)
SuppliedMember(resp, key) ==
    resp[CHOOSE i \in 1..Len(resp) :
            resp[i].k = key /\ \A j \in (i + 1)..Len(resp) : resp[j].k # key]

\* the text field of the decision is the supplied string or null, else the default
TextFieldOk(resp, key, default, got) ==
    IF Supplied(resp, key)
    THEN LET m == SuppliedMember(resp, key)
         IN  IF m.j = "null" THEN got = PyNone ELSE got = PyStr(m.v)
    ELSE got = PyStr(default)

\* C18: when the reply's payload parses, the call raises in no parsing step
\* whatever fields are missing, and in the decision every field the payload
\* leaves out has its default (type out_of_scope, difficulty medium,
\* need_human_TA false, route_to the string None, notes empty) and every
\* field it supplies has the supplied value (need_human_TA as its truth
\* value).
C18_MissingFieldsDefault ==
    \A w \in Workers :
        /\ ( /\ pc[w] = "idle"
             /\ ret[w].outcome # "none"
             /\ ret[w].resp # NoReply
             /\ EnclosesObject(ret[w].resp) )
           => (Decided(w) \/ Len(requests[w]) = 2)
        /\ Decided(w) =>
              LET resp == PayloadOf(CallReply(w))
                  d == FinalDecision(w)
              IN  /\ TextFieldOk(resp, "type", "out_of_scope", d.type)
                  /\ TextFieldOk(resp, "difficulty", "medium", d.difficulty)
                  /\ TextFieldOk(resp, "route_to", "None", d.route_to)
                  /\ TextFieldOk(resp, "notes_for_TA", "", d.notes_for_TA)
                  /\ d.need_human_TA =
                        IF Supplied(resp, "need_human_TA")
                        THEN LET m == SuppliedMember(resp, "need_human_TA")
                             IN  m.j = "true" \/ (m.j = "string" /\ m.v # "")
                        ELSE FALSE

\* C18's case: the payload holds route_to only; the other four fields have
\* their defaults and the ReviewAgent answered
C18_Witness ==
    \E w \in Workers :
        /\ ret[w].outcome = "Answered"
        /\ ret[w].resp = <<Prose, LBrace, Member("route_to", "string", "ReviewAgent"), RBrace>>
        /\ ret[w].result.router =
              [type |-> PyStr("out_of_scope"), difficulty |-> PyStr("medium"),
               need_human_TA |-> FALSE, route_to |-> PyStr("ReviewAgent"),
               notes_for_TA |-> PyStr("")]
        /\ Len(requests[w]) = 2

\* the text of a window, trimmed
Trimmed(text, win) == Strip(SubSeq(text, win.lo + 1, win.hi))

\* the windows whose trimmed text is not empty, in their order
RECURSIVE Kept(_, _)
Kept(text, wins) ==
    IF wins = <<>> THEN <<>>
    ELSE (IF Trimmed(text, Head(wins)) # <<>> THEN <<Trimmed(text, Head(wins))>> ELSE <<>>)
         \o Kept(text, Tail(wins))

\* C19: when _chunk_text returns, window k (from 0) starts at k(W-O); every
\* window but the last has length W and ends before L, the last ends exactly
\* at L; the chunks returned are the trimmed windows, in order, without the
\* ones that are empty after trimming, and the last window is not one of
\* those. For W=700, O=150, L=2000 the windows are [0:700], [550:1250],
\* [1100:1800], [1650:2000], four chunks when none is blank.
C19_ChunkWindows ==
    kb.pc = "returned" =>
        LET W == kb.chunk_size
            O == kb.overlap
            L == Len(kb.text)
            wins == kb.windows
            n == Len(wins)
        IN  /\ n >= 1
            /\ \A k \in 1..n :
                  /\ wins[k].lo = (k - 1) * (W - O)
                  /\ k < n => (wins[k].hi = wins[k].lo + W /\ wins[k].hi < L)
            /\ wins[n].hi = L
            /\ wins[n].hi - wins[n].lo <= W
            /\ kb.out = Kept(kb.text, wins)
            /\ Trimmed(kb.text, wins[n]) # <<>>
            /\ (W = 700 /\ O = 150 /\ L = 2000) =>
                  /\ wins = << [lo |-> 0, hi |-> 700], [lo |-> 550, hi |-> 1250],
                               [lo |-> 1100, hi |-> 1800], [lo |-> 1650, hi |-> 2000] >>
                  /\ (\A k \in 1..4 : Trimmed(kb.text, wins[k]) # <<>>) => Len(kb.out) = 4

\* C19's case: a text of 2000 characters chunked with 700/150 into four chunks
C19_Witness ==
    /\ kb.pc = "returned"
    /\ kb.chunk_size = 700 /\ kb.overlap = 150
    /\ Len(kb.text) = 2000
    /\ Len(kb.windows) = 4
    /\ Len(kb.out) = 4
    /\ Len(kb.out[4]) = 350

\* ---- C20
\* the lines of the digest: where each starts, and what it holds
LineStarts(d) == {1} \cup {i + 1 : i \in {j \in 1..Len(d) : d[j] = "\n"}}

LineAt(d, i) ==
    IF \A j \in i..Len(d) : d[j] # "\n" THEN SubSeq(d, i, Len(d))
    ELSE SubSeq(d, i, (CHOOSE j \in i..Len(d) :
                          d[j] = "\n" /\ \A k \in i..(j - 1) : d[k] # "\n") - 1)

\* where the title of the detailed part starts in the digest (0: nowhere)
DetailStart(d) ==
    LET title == SubSeq(DetailTitle, 2, Len(DetailTitle) - 1)
        at == {i \in LineStarts(d) : i <= Len(d) /\ LineAt(d, i) = title}
    IN  IF at = {} THEN 0 ELSE CHOOSE i \in at : \A j \in at : i <= j

\* the lines of the table of contents that name fname
TocEntries(d, fname) ==
    {i \in LineStarts(d) :
        /\ i < DetailStart(d)
        /\ \E idx \in 1..Len(kb.files) : LineAt(d, i) = TocLine(idx, fname)}

\* the section headers that name fname
HeaderEntries(d, fname) ==
    {i \in LineStarts(d) :
        /\ i > DetailStart(d) /\ i <= Len(d)
        /\ \E idx \in 1..Len(kb.files) :
              LineAt(d, i) = SubSeq(SectionHeader(idx, fname), 2,
                                    Len(SectionHeader(idx, fname)) - 1)}

SourceNames == {Basename(kb.chunks[k].path) : k \in 1..Len(kb.chunks)}

\* C20: once the folder is loaded, the digest is the empty string exactly when
\* there is no chunk, and otherwise every filename of the chunks is on exactly
\* one line of the table of contents and in exactly one section header, also
\* when two paths in different subdirectories share the filename.
C20_EachFilenameOnce ==
    kb.pc = "done" =>
        /\ (global_context = <<>>) <=> (kb.chunks = <<>>)
        /\ \A fname \in SourceNames :
              /\ Cardinality(TocEntries(global_context, fname)) = 1
              /\ Cardinality(HeaderEntries(global_context, fname)) = 1

\* the digest is the empty string exactly when there is no chunk, and every
\* path of the chunks has one line of the table of contents and one section
\* header
C20_EachPathOnce ==
    kb.pc = "done" =>
        /\ (global_context = <<>>) <=> (kb.chunks = <<>>)
        /\ \A fname \in SourceNames :
              LET paths == {p \in {kb.chunks[k].path : k \in 1..Len(kb.chunks)} :
                               Basename(p) = fname}
              IN  /\ Cardinality(TocEntries(global_context, fname)) = Cardinality(paths)
                  /\ Cardinality(HeaderEntries(global_context, fname)) = Cardinality(paths)

\* ---- C21
\* the lines of the digest, in order
DigestLines(d) ==
    LET S == LineStarts(d)
    IN  [k \in 1..Cardinality(S) |->
            LineAt(d, CHOOSE i \in S : Cardinality({j \in S : j <= i}) = k)]

\* the paths of the chunks, and where each is first seen in the list
ChunkPaths == {kb.chunks[k].path : k \in 1..Len(kb.chunks)}
FirstSeenAt(path) ==
    CHOOSE k \in 1..Len(kb.chunks) :
        kb.chunks[k].path = path /\ \A j \in 1..(k - 1) : kb.chunks[j].path # path

\* the path that is the n-th to be first seen
NthSource(n) ==
    CHOOSE p \in ChunkPaths :
        Cardinality({q \in ChunkPaths : FirstSeenAt(q) <= FirstSeenAt(p)}) = n

\* the texts of the chunks of a path, in the order of the list
TextsOf(path) ==
    LET own == SelectSeq(kb.chunks, LAMBDA c : c.path = path)
    IN  [k \in 1..Len(own) |-> own[k].text]

\* the line of the header of section n, without the line breaks around it
HeaderLine(n) ==
    LET h == SectionHeader(n, Basename(NthSource(n)))
    IN  SubSeq(h, 2, Len(h) - 1)

\* the lines of the digest that hold the header of section n
HeaderAt(lines, n) == {i \in 1..Len(lines) : lines[i] = HeaderLine(n)}

\* C21: once the folder is loaded and some chunk was kept, the table of
\* contents lists the sources in the order they were first seen, numbered
\* from 1; the sections follow in that same order with the same numbers; the
\* section of a source holds its chunks, all of them and no others, in the
\* order of the list.
C21_GroupedInFirstSeenOrder ==
    (kb.pc = "done" /\ kb.chunks # <<>>) =>
        LET lines == DigestLines(global_context)
            n == Cardinality(ChunkPaths)
            toc == 4
            HeadOf(k) == CHOOSE i \in HeaderAt(lines, k) :
                            \A j \in 1..(k - 1) : \E h \in HeaderAt(lines, j) : h < i
            EndOf(k) == IF k = n THEN Len(lines) ELSE HeadOf(k + 1) - 2
        IN  /\ \A k \in 1..n : lines[toc + k] = TocLine(k, Basename(NthSource(k)))
            /\ lines[toc + n + 1] = <<>>
            /\ lines[toc + n + 2] = SubSeq(DetailTitle, 2, Len(DetailTitle) - 1)
            /\ \A k \in 1..n :
                  /\ HeaderAt(lines, k) # {}
                  /\ HeadOf(k) > toc + n + 2
                  /\ k > 1 => HeadOf(k - 1) < HeadOf(k)
                  /\ Join(SubSeq(lines, HeadOf(k) + 2, EndOf(k))) = Join(TextsOf(NthSource(k)))

\* C21's case: two sources, the first with two chunks, each in its section
C21_Witness ==
    /\ kb.pc = "done"
    /\ Cardinality(ChunkPaths) = 2
    /\ Len(TextsOf(NthSource(1))) = 2
    /\ Len(TextsOf(NthSource(2))) = 1
    /\ TextsOf(NthSource(1))[1] # TextsOf(NthSource(2))[1]
    /\ global_context # <<>>

\* ---- C22
\* the windows _chunk_text cuts from a text of the given length
WindowsOf(length) ==
    LET step == ChunkSize - Overlap
        n == IF length <= ChunkSize THEN 1
             ELSE ((length - ChunkSize + step - 1) \div step) + 1
    IN  [k \in 1..n |-> [lo |-> (k - 1) * step,
                         hi |-> Min(length, (k - 1) * step + ChunkSize)]]

\* whether a file of the folder is material: a supported extension, a loader
\* that returns, a text that is not blank
IsMaterial(file) ==
    /\ LowerExt(file.name) \in
          TextExts \cup {PdfExt, PptxExt}
    /\ file.load # LoaderRaises
    /\ Strip(file.load) # <<>>

\* the chunks a material file gives
ChunksOfFile(file) ==
    LET text == Strip(file.load)
        kept == Kept(text, WindowsOf(Len(text)))
    IN  [k \in 1..Len(kept) |->
            [path |-> PathJoin(file.root, file.name), text |-> kept[k]]]

RECURSIVE ChunksOfFiles(_)
ChunksOfFiles(files) ==
    IF files = <<>> THEN <<>>
    ELSE (IF IsMaterial(files[1]) THEN ChunksOfFile(files[1]) ELSE <<>>)
         \o ChunksOfFiles(Tail(files))

\* the scan went through the folder (a missing folder is left at once)
ScannedFolder == kb.pc = "done" /\ kb.i > 0
FoundNoFolder == kb.pc = "done" /\ kb.i = 0

\* C22: the scan ends whatever the files do. The chunk list is then all the
\* chunks of every file with a supported extension whose loader returned a
\* text that is not blank, in the order of the files; a file whose loader
\* raised and a file with another extension give none; the digest is built
\* from that list, and it names each of these files. A missing folder is
\* created and gives no chunk and the empty digest.
C22_BadFilesSkipped ==
    /\ ScannedFolder =>
          /\ kb.chunks = ChunksOfFiles(kb.files)
          /\ \A k \in 1..Len(kb.files) :
                IsMaterial(kb.files[k]) =>
                    /\ \E c \in 1..Len(kb.chunks) :
                          kb.chunks[c].path = PathJoin(kb.files[k].root, kb.files[k].name)
                    /\ TocEntries(global_context, kb.files[k].name) # {}
                    /\ HeaderEntries(global_context, kb.files[k].name) # {}
          /\ \A k \in 1..Len(kb.files) :
                ~IsMaterial(kb.files[k]) =>
                    \A c \in 1..Len(kb.chunks) :
                        kb.chunks[c].path # PathJoin(kb.files[k].root, kb.files[k].name)
          /\ (global_context = <<>>) <=> (\A k \in 1..Len(kb.files) : ~IsMaterial(kb.files[k]))
    /\ FoundNoFolder =>
          /\ kb.folder_exists
          /\ kb.chunks = <<>>
          /\ global_context = <<>>

\* C22's case: the first file's loader raised, the second file is in the
\* list of chunks and in the digest
C22_Witness ==
    /\ ScannedFolder
    /\ Len(kb.files) = 2
    /\ LowerExt(kb.files[1].name) \in TextExts
    /\ kb.files[1].load = LoaderRaises
    /\ IsMaterial(kb.files[2])
    /\ kb.chunks = ChunksOfFile(kb.files[2])
    /\ global_context # <<>>

\* ---- C23
\* C23: a scan of the folder that follows another, the folder unchanged,
\* leaves the same chunk list (the same texts under the same paths, as many,
\* none twice over) and the same digest as the scan before.
C23_RescanIdempotent ==
    (kb.pc = "done" /\ kb.scans > 1) =>
        /\ kb.chunks = kb.prev.chunks
        /\ Len(kb.chunks) = Len(ChunksOfFiles(kb.files))
        /\ global_context = kb.prev.digest

\* C23's case: the second scan of a folder with a file of two chunks and
\* another file has ended
C23_Witness ==
    /\ kb.pc = "done"
    /\ kb.scans = 2
    /\ Len(kb.files) = 2
    /\ Len(kb.prev.chunks) = 3
    /\ Len(kb.chunks) = 3
    /\ kb.prev.digest # <<>>

\* ---- C24
\* the requests of the worker's call that went out under an agent's prompt
AgentRequests(w) ==
    {i \in 1..Len(requests[w]) : requests[w][i].system_prompt # "ROUTER_SYSTEM_PROMPT"}

\* C24: a call never sends more than one request of a specialist agent. When
\* the agent's generation call raises, the step sends nothing more, adds no
\* turn and no log record, and handle_question raises to its caller; the web
\* layer then returns its fallback text.
C24_AgentFailureNotRetried ==
    [][ \A w \in Workers :
          /\ Cardinality(AgentRequests(w)') <= 1
          /\ (pc[w] = "agent" /\ ret'[w].hq_raised) =>
                /\ pc'[w] = "idle"
                /\ requests'[w] = requests[w]
                /\ Cardinality(AgentRequests(w)) = 1
                /\ ret'[w].outcome = "raised"
                /\ ret'[w].result = NoResult
                /\ ta'[w] = ta[w]
                /\ pending_file' = pending_file
                /\ history_file' = history_file
                /\ frame[w].caller = "web" =>
                      /\ ~ret'[w].raised
                      /\ ret'[w].response = get_ai_response_fallback(frame[w].question)
      ]_vars

\* C24's case: the agent's call raised after the one request, and the web
\* layer returned the fallback
C24_Witness ==
    \E w \in Workers :
        /\ ret[w].outcome = "raised"
        /\ ret[w].caller = "web"
        /\ Len(requests[w]) = 2
        /\ Cardinality(AgentRequests(w)) = 1
        /\ ret[w].response = get_ai_response_fallback(ret[w].question)

\* ---- C25
\* C25: for a question with a code keyword and no exam keyword, when the
\* classifier returns type code or type assignment, the decision after the
\* override has route_to CodeAgent and need_human_TA false.
C25_CodeQuestionToCodeAgent ==
    \A w \in Workers :
        ( /\ Decided(w)
          /\ is_code_like(CallQuestion(w))
          /\ ~is_exam_like(CallQuestion(w))
          /\ FinalDecision(w).type \in {PyStr("code"), PyStr("assignment")} )
        => /\ FinalDecision(w).route_to = PyStr("CodeAgent")
           /\ ~FinalDecision(w).need_human_TA

\* ---- C26
\* the user message of the agent request the worker's call sent, if any
AgentMessage(w) == Last(Last(requests[w]).messages).content

\* C26: no step of a process that has its instance (a question and all that
\* follows it, a clear, an exit) changes the chunks or the digest; and the
\* user message of every agent request holds the whole digest, character for
\* character, after its first line, whatever the agent (each has its own
\* top_k and max_chars) and the question; with an empty digest it holds no
\* materials part.
C26_DigestFixedAndWhole ==
    [][ /\ (\E w \in Workers : ta[w] # NoTA) =>
              /\ kb'.chunks = kb.chunks
              /\ global_context' = global_context
        /\ \A w \in Workers :
              AgentRequests(w)' # {} =>
                  LET digest == global_context'
                      msg == AgentMessage(w)'
                  IN  IF digest = <<>>
                      THEN \A i \in 1..Len(msg) : msg[i] # "-"
                      ELSE /\ Len(msg) > 3 + Len(digest)
                           /\ SubSeq(msg, 4, 3 + Len(digest)) = digest
                           /\ SubSeq(msg, 4 + Len(digest), 9 + Len(digest))
                                 = <<"\n", "\n", "-", "-", "-", "\n">>
      ]_vars

\* C26's case: the CodeAgent, whose max_chars is 1500, was sent a digest of
\* more than 2600 characters
C26_Witness ==
    \E w \in Workers :
        /\ pc[w] = "agent"
        /\ frame[w].agent = "CodeAgent"
        /\ Len(global_context) > 2600
        /\ Len(AgentMessage(w)) > Len(global_context)

\* ---- C27
\* the classifier's request of the worker's running or last call
ClassifierRequest(w) == requests[w][1]

\* C27: the classifier's request of a call is the router prompt, temperature
\* 0 and one user message made of the fixed instruction and the question: no
\* turn of the history is in it. Two processes on different sessions that
\* are asked the same question send the same classifier request, whatever
\* their histories hold.
C27_ClassifierRequestFromQuestionOnly ==
    /\ \A w \in Workers :
          requests[w] # <<>> =>
              LET r == ClassifierRequest(w)
                  q == CallQuestion(w)
              IN  /\ r.system_prompt = "ROUTER_SYSTEM_PROMPT"
                  /\ r.temperature = "0.0"
                  /\ Len(r.messages) = 1
                  /\ r.messages[1].role = USER
                  /\ Len(r.messages[1].content) = 3 + Len(q)
                  /\ SubSeq(r.messages[1].content, 4, 3 + Len(q)) = q
    /\ \A v, w \in Workers :
          ( /\ requests[v] # <<>> /\ requests[w] # <<>>
            /\ CallQuestion(v) = CallQuestion(w) )
          => ClassifierRequest(v) = ClassifierRequest(w)

\* C27's case: two sessions, one with a history at the cap and one with the
\* question only, were asked the same question
C27_Witness ==
    \E v, w \in Workers :
        /\ ta[v] # NoTA /\ ta[w] # NoTA
        /\ ta[v].session_id # ta[w].session_id
        /\ requests[v] # <<>> /\ requests[w] # <<>>
        /\ CallQuestion(v) = CallQuestion(w)
        /\ Len(ta[v].conversation_history) = MaxHistory
        /\ Len(ta[w].conversation_history) = 1
        /\ ClassifierRequest(v) = ClassifierRequest(w)

\* ---- C28
\* the requests of the worker's call that went out under the router's prompt
ClassifierRequests(w) ==
    {i \in 1..Len(requests[w]) : requests[w][i].system_prompt = "ROUTER_SYSTEM_PROMPT"}

\* where the worker's call stands: Received (the classifier is out),
\* Classified (an agent is out), or ended
Received(w) == pc[w] = "route"
Classified(w) == pc[w] = "agent"
Returned(w) == pc[w] = "idle" /\ ret[w].outcome \notin {"none", "cleared", "unavailable"}
                              /\ ~ret[w].hq_raised

\* C28: a call of handle_question goes from Received to Classified or to its
\* end, and from Classified to its end, never back and never past a stage.
\* While it is Received the classifier's request is the only one sent; an
\* agent's request goes out only in the step that takes the classifier's
\* reply, and a call sends one classifier request and at most one agent
\* request in all. The step in which a call returns normally either logs the
\* question for a human and adds no turn (Escalated), or adds the answer as a
\* turn and logs nothing (Answered), never both and never neither.
C28_SequentialPipeline ==
    [][ \A w \in Workers :
          /\ Received(w) => (Received(w)' \/ Classified(w)' \/ pc'[w] = "idle")
          /\ Classified(w) => (Classified(w)' \/ pc'[w] = "idle")
          /\ Classified(w)' => (Classified(w) \/ Received(w))
          /\ Received(w)' =>
                /\ Len(requests'[w]) = 1
                /\ ClassifierRequests(w)' = {1}
          /\ Classified(w)' =>
                /\ Len(requests'[w]) = 2
                /\ ClassifierRequests(w)' = {1}
                /\ frame'[w].resp # NoReply
          /\ (requests'[w] # requests[w] /\ ~Received(w)') =>
                \/ Received(w) /\ Classified(w)' /\ requests'[w] = Append(requests[w], Last(requests'[w]))
                \/ requests'[w] = <<>>
          /\ (~Returned(w) /\ Returned(w)') =>
                LET escalated == /\ pending_file' # <<>>
                                 /\ pending_file' = Append(pending_file, Last(pending_file'))
                                 /\ Last(pending_file').question = ret'[w].question
                                 /\ ta'[w] = ta[w]
                                 /\ ret'[w].result.ai_answer = None
                    answered == /\ pending_file' = pending_file
                                /\ ta'[w].conversation_history # ta[w].conversation_history
                                /\ ta'[w].conversation_history # <<>>
                                /\ Last(ta'[w].conversation_history) =
                                      [role |-> ASSISTANT, content |-> ret'[w].result.ai_answer]
                IN  /\ escalated \/ answered
                    /\ ~(escalated /\ answered)
                    /\ ret'[w].outcome = "Escalated" <=> escalated
                    /\ ret'[w].outcome = "Answered" <=> answered
                    /\ ClassifierRequests(w)' = {1}
                    /\ Cardinality(AgentRequests(w)') <= 1
                    /\ escalated => AgentRequests(w)' = {}
      ]_vars

\* C28's case: a call went through both stages and returned an agent's answer
C28_Witness ==
    \E w \in Workers :
        /\ Returned(w)
        /\ ret[w].outcome = "Answered"
        /\ ClassifierRequests(w) = {1}
        /\ AgentRequests(w) = {2}
        /\ pending_file = <<>>

\* ---- C29
\* the decision the classifier's reply of the worker's call parses to
ClassifierDecision(w) == RouteParse(CallReply(w)).decision

Running(w) == pc[w] \in {"route", "agent"}

\* C30: the step in which the classifier's call, the parsing of its reply
\* or the agent's call raises leaves the history, its file and the pending
\* log as they were: the history still ends with the question as a user
\* turn, and so does what a new instance would load from the file when the
\* save at the start of the call went through; no assistant turn and no log
\* record was added on the way there.
C30_UserTurnKeptOnFailure ==
    [][ \A w \in Workers :
          /\ (Running(w) /\ ret'[w].outcome = "raised") =>
                LET sid == ta[w].session_id
                    h == ta'[w].conversation_history
                IN  /\ ret'[w].hq_raised
                    /\ ta'[w] = ta[w]
                    /\ history_file' = history_file
                    /\ pending_file' = pending_file
                    /\ h # <<>>
                    /\ Last(h) = UserTurn(frame[w].question)
                    /\ writer[sid].ok =>
                          LoadHistory(history_file'[HistoryFileOf(sid)]) = h
                    /\ ret'[w].result.ai_answer = None
          /\ (Running(w) /\ Running(w)') =>
                /\ ta'[w] = ta[w]
                /\ pending_file' = pending_file \/ \E v \in Workers \ {w} : pc'[v] # pc[v]
      ]_vars

\* C30's case: the agent's call raised; the history at the cap and its file
\* end with the question
C30_Witness ==
    \E w \in Workers :
        /\ ret[w].outcome = "raised"
        /\ Len(requests[w]) = 2
        /\ Len(ta[w].conversation_history) = MaxHistory
        /\ Last(ta[w].conversation_history) = UserTurn(ret[w].question)
        /\ LoadHistory(history_file[HistoryFileOf(ta[w].session_id)])
              = ta[w].conversation_history
        /\ pending_file = <<>>

\* ---- C31
\* two assistant turns side by side in a history
AdjacentAssistants(h) ==
    \E i \in 1..(Len(h) - 1) : h[i].role = ASSISTANT /\ h[i + 1].role = ASSISTANT

\* C31: the history of an instance never holds two assistant turns side by
\* side; and when a call has just returned, the last turn is an assistant
\* turn exactly when the outcome was Answered: after Escalated it is the
\* question, as a user turn.
C31_TurnsAlternate ==
    \A w \in Workers :
        ta[w] # NoTA =>
            LET h == ta[w].conversation_history
            IN  /\ ~AdjacentAssistants(h)
                /\ Returned(w) =>
                      /\ h # <<>>
                      /\ (Last(h).role = ASSISTANT) <=> (ret[w].outcome = "Answered")
                      /\ ret[w].outcome = "Escalated" => Last(h) = UserTurn(ret[w].question)
                      /\ ret[w].outcome = "Answered" =>
                            Len(h) >= 2 /\ h[Len(h) - 1] = UserTurn(ret[w].question)

\* C31's case: a session that began empty: its first question was escalated,
\* its second answered
C31_Witness ==
    \E w \in Workers :
        /\ Returned(w)
        /\ ret[w].outcome = "Answered"
        /\ Len(ta[w].conversation_history) = 3
        /\ ta[w].conversation_history[1].role = USER
        /\ ta[w].conversation_history[2].role = USER
        /\ ta[w].conversation_history[3].role = ASSISTANT

\* ---- C32
\* the worker's call ends in this step with the Escalated outcome
EndsEscalated(w) == pc[w] = "route" /\ pc'[w] = "idle" /\ ret'[w].outcome = "Escalated"

\* C32: every record of the pending log holds a decision with need_human_TA
\* true, as it stood after the override, and no answer. The log grows by one
\* record in every step in which a call ends Escalated, the record of that
\* call, and changes in no other step: there are as many records as calls
\* that ended Escalated, and a call that ends otherwise adds none.
C32_OneRecordPerEscalation ==
    [][ /\ \A i \in 1..Len(pending_file') :
              /\ pending_file'[i].router.need_human_TA
              /\ pending_file'[i].ai_answer = None
        /\ \A w \in Workers :
              EndsEscalated(w) =>
                  /\ Len(pending_file') = Len(pending_file) + 1
                  /\ pending_file' =
                        Append(pending_file,
                               [question |-> frame[w].question,
                                router |-> Override(RouteParse(ret'[w].resp).decision,
                                                    frame[w].question),
                                ai_answer |-> None])
                  /\ ret'[w].result.router = Last(pending_file').router
        /\ pending_file' # pending_file => \E w \in Workers : EndsEscalated(w)
        /\ \A w \in Workers :
              (Running(w) /\ pc'[w] # pc[w] /\ ~EndsEscalated(w)) =>
                  pending_file' = pending_file
      ]_vars

\* C32's case: two calls ended Escalated and the log holds their two records
C32_Witness ==
    /\ Len(pending_file) = 2
    /\ pending_file[1].question # pending_file[2].question
    /\ \A i \in 1..2 : pending_file[i].router.need_human_TA
    /\ \E w \in Workers :
          /\ ret[w].outcome = "Escalated"
          /\ ret[w].question = pending_file[2].question

\* ---- C33
\* both sides have handled the same questions and added the same turns
SameTurnsSoFar ==
    /\ pc[LongLived] = "idle" /\ pc[Fresh] = "idle"
    /\ ta[LongLived] # NoTA /\ ta[Fresh] # NoTA
    /\ appended[CliSession[LongLived]] = appended[CliSession[Fresh]]

\* the last call of both sides got the same from the router and the agent
SameLastCall ==
    /\ ret[LongLived].question = ret[Fresh].question
    /\ ret[LongLived].resp = ret[Fresh].resp
    /\ ret[LongLived].hq_raised = ret[Fresh].hq_raised

\* C33: when an instance that stays and a new instance per question have
\* handled the same questions one at a time, with the same turns added and
\* every save gone through, they hold the same history, and so does the
\* instance the next question would build; and when their last calls got the
\* same replies, the requests sent (the agent's with the history in it) and
\* the results returned are the same.
C33_FreshEqualsLongLived ==
    SameTurnsSoFar =>
        /\ ta[LongLived].conversation_history = ta[Fresh].conversation_history
        /\ NewTA(CliSession[Fresh]).conversation_history = ta[LongLived].conversation_history
        /\ SameLastCall =>
              /\ requests[LongLived] = requests[Fresh]
              /\ ret[LongLived].result = ret[Fresh].result
              /\ ret[LongLived].outcome = ret[Fresh].outcome

\* C33's case: the second question was answered by an agent on both sides,
\* over a history that went over the cap
C33_Witness ==
    /\ SameTurnsSoFar
    /\ SameLastCall
    /\ QuestionsAsked(CliSession[LongLived]) = MaxHistory \div 2 + 2
    /\ ret[LongLived].outcome = "Answered"
    /\ Len(requests[LongLived]) = 2
    /\ Len(ta[Fresh].conversation_history) = MaxHistory
    /\ Len(Last(requests[Fresh]).messages) = MaxHistory

\* ---- C34
\* the history of w's session before the question of the running call was
\* added to it: the last MaxHistory of the turns added before the question
PriorHistory(w) == LastN(ButLast(appended[CliSession[w]]), MaxHistory)

\* what w's instance holds, or would load, before a call starts
HistoryBeforeCall(w) ==
    IF w = LongLived THEN ta[w].conversation_history
    ELSE LoadHistory(history_file[HistoryFileOf(CliSession[w])])

\* the history part of the agent's request: its messages without the agent's
\* own user message
PassedHistory(w) == ButLast(Last(requests[w]).messages)

IsSuffix(s, t) == Len(s) <= Len(t) /\ s = LastN(t, Len(s))

\* C34: the history an agent's request carries is a suffix of the session's
\* history as it was before the call added its question, and has at most
\* MaxHistory - 1 turns: all of that history when it had fewer than MaxHistory
\* turns, its last MaxHistory - 1 turns when it was at the cap.
C34_AgentHistoryIsPriorSuffix ==
    [][ \A w \in Workers :
          /\ (pc[w] = "idle" /\ pc'[w] = "route") => PriorHistory(w)' = HistoryBeforeCall(w)
          /\ pc'[w] = "agent" =>
                LET prior == PriorHistory(w)'
                    passed == PassedHistory(w)'
                IN  /\ Len(prior) <= MaxHistory
                    /\ Len(passed) <= MaxHistory - 1
                    /\ IsSuffix(passed, prior)
                    /\ Len(prior) < MaxHistory => passed = prior
                    /\ Len(prior) = MaxHistory => passed = LastN(prior, MaxHistory - 1)
      ]_vars

\* C34's case: an agent is called when the session's history was at the cap
\* before the question, and gets all but the oldest of its turns
C34_Witness ==
    \E w \in Workers :
        /\ pc[w] = "agent"
        /\ Len(PriorHistory(w)) = MaxHistory
        /\ Len(PassedHistory(w)) = MaxHistory - 1
        /\ PassedHistory(w)[1] = PriorHistory(w)[2]

\* ---- C35
\* C35: in every result handle_question returns, the answer is None exactly
\* when the call was escalated, and the message is non-empty exactly when it
\* was; the result of an answered call holds the text in its answer (the fixed
\* notice when no agent was called), the same text the history's last turn
\* holds as the assistant's.
C35_ResultShape ==
    \A w \in Workers :
        Returned(w) =>
            LET result == ret[w].result
            IN  /\ ret[w].outcome \in {"Answered", "Escalated"}
                /\ (result.ai_answer = None) <=> (ret[w].outcome = "Escalated")
                /\ (result.message # <<>>) <=> (ret[w].outcome = "Escalated")
                /\ ret[w].outcome = "Answered" =>
                      /\ Last(ta[w].conversation_history) =
                             [role |-> ASSISTANT, content |-> result.ai_answer]
                      /\ Len(requests[w]) = 1 => result.ai_answer = NoAgentAnswer

\* C35's case: an agent's answer was the empty text, and the call's result
\* and the history hold it
C35_Witness ==
    \E w \in Workers :
        /\ Returned(w)
        /\ ret[w].outcome = "Answered"
        /\ Len(requests[w]) = 2
        /\ ret[w].result.ai_answer = <<>>
        /\ ret[w].result.message = <<>>
        /\ Last(ta[w].conversation_history).content = <<>>

\* ---- C36
\* the positions two windows both hold
Shared(a, b) == Max(0, Min(a.hi, b.hi) - Max(a.lo, b.lo))

\* the call of _chunk_text has a chunk size above its overlap, which is not
\* negative
ChunkParamsOk == kb.chunk_size > kb.overlap /\ kb.overlap >= 0

\* C36: with chunk_size > overlap >= 0 the loop of _chunk_text ends for every
\* text: each pass that stays in the loop moves start forward, and the call
\* returns. The windows it took, before trimming, hold every position of the
\* text between them, and two windows next to each other share exactly
\* overlap characters.
C36_ChunkLoopEndsAndCovers ==
    /\ [][ (ChunkParamsOk /\ kb.pc = "chunk" /\ kb'.pc = "chunk")
              => (kb'.start > kb.start /\ kb'.start < Len(kb.text)) ]_vars
    /\ (ChunkParamsOk /\ kb.pc = "chunk") ~> (kb.pc = "returned")
    /\ []( (ChunkParamsOk /\ kb.pc = "returned") =>
              LET wins == kb.windows
              IN  /\ \A p \in 0..(Len(kb.text) - 1) :
                        \E k \in 1..Len(wins) : wins[k].lo <= p /\ p < wins[k].hi
                  /\ \A k \in 1..(Len(wins) - 1) :
                        /\ Shared(wins[k], wins[k + 1]) = kb.overlap
                        /\ wins[k + 1].lo = wins[k].hi - kb.overlap )

\* C36's case: a call with the chunk size one above the overlap has returned
\* after one window per position but the last
C36_Witness ==
    /\ kb.pc = "returned"
    /\ kb.chunk_size = kb.overlap + 1
    /\ Len(kb.text) >= 4
    /\ Len(kb.windows) = Len(kb.text) - 1

\* ---- C37
\* the history file of w's session is there and cannot be loaded
Unreadable(w) ==
    LET f == history_file[HistoryFileOf(CliSession[w])]
    IN  f.exists /\ ~f.valid

\* C37: the step that builds an instance for a session whose history file is
\* there and cannot be loaded gives an instance with an empty history and
\* leaves the file as it is; the first call of that instance, when the save
\* goes through, leaves a file that holds the new user turn and nothing else,
\* so a later load finds that turn only.
C37_UnreadableHistoryStartsEmpty ==
    [][ \A w \in Workers :
          LET file == history_file[HistoryFileOf(CliSession[w])]
              file_after == history_file'[HistoryFileOf(CliSession[w])]
          IN  /\ (Unreadable(w) /\ ta[w] = NoTA /\ ta'[w] # NoTA) =>
                    /\ ta'[w].session_id = CliSession[w]
                    /\ ta'[w].conversation_history = <<>>
                    /\ file_after = file
              /\ ( /\ Unreadable(w)
                   /\ pc[w] = "idle" /\ pc'[w] = "route"
                   /\ ta[w].conversation_history = <<>>
                   /\ disk = "ok" ) =>
                    /\ ta'[w].conversation_history = <<UserTurn(frame'[w].question)>>
                    /\ file_after = SaveHistory(<<UserTurn(frame'[w].question)>>)
                    /\ file_after.data # file.data
                    /\ LoadHistory(file_after) = <<UserTurn(frame'[w].question)>>
      ]_vars

\* C37's case: the first process was built and has taken its first question;
\* its file, which could not be loaded, now loads as that one turn
C37_Witness ==
    /\ ncalls = 2
    /\ pc["w1"] = "route"
    /\ ta["w1"].conversation_history = <<UserTurn(frame["w1"].question)>>
    /\ ~Unreadable("w1")
    /\ LoadHistory(history_file[HistoryFileOf(CliSession["w1"])])
           = <<UserTurn(frame["w1"].question)>>

\* ---- C38
\* the responses sent with success for a conversation, over all workers
SentFor(conv_id) ==
    UNION { { <<w, i>> : i \in {j \in 1..Len(post[w].sent) :
                                   post[w].sent[j].conv_id = conv_id} } : w \in Workers }

\* the messages of the file hold the two of a response, one after the other
HoldsPair(messages, r) ==
    \E i \in 1..(Len(messages) - 1) :
        messages[i] = r.user_message /\ messages[i + 1] = r.ai_response

\* C38: a request that is answered with success has added two entries to its
\* conversation, the user's message and then the AI's response; when no
\* request is running, the conversations file holds both entries of every
\* request answered with success, two entries for each.
C38_EverySuccessPersisted ==
    (\A w \in Workers : post[w].pc = "idle") =>
        \A c \in DOMAIN conversations_file :
            LET messages == conversations_file[c].messages
            IN  /\ Len(messages) = 2 * Cardinality(SentFor(c))
                /\ \A p \in SentFor(c) : HoldsPair(messages, post[p[1]].sent[p[2]])

====
